---- MODULE Spec2Model ----
(***************************************************************************)
(* A model of the vendored cJSON parser, printer and value tree of ppb-cli *)
(* (src/ppb-cli/vendor/cJSON.c).                                           *)
(*                                                                         *)
(* Memory is explicit.  A pointer to a node or to a string buffer is the   *)
(* index of the allocation in the heap (0 is NULL); a pointer into the     *)
(* input text is the 1-based index of the byte (0 is NULL), so the byte    *)
(* offset of a read is the index minus one.  Every allocation keeps the    *)
(* number of times it was passed to the free hook.                         *)
(*                                                                         *)
(* valuedouble is modelled as an exact decimal m * 10^e.                   *)
(***************************************************************************)
EXTENDS Integers, Sequences, FiniteSets, TLC

(***************************************************************************)
(* Bounds of the model.                                                    *)
(***************************************************************************)
\* tokens of the body of a generated string literal
MaxStrTokens == 2
\* tokens of a generated structural text
MaxStructTokens == 3
\* the malloc call of a parse that fails (0: none), up to this one
MaxFailAt == 2
\* calls that edit a parsed tree (detach, delete item)
MaxOps == 1
\* the nodes of a heap whose trees are printed, edited or deleted
MaxTreeNodes == 8
\* the items created for a container that is built
MaxItems == 3

(***************************************************************************)
(* Bytes.                                                                  *)
(***************************************************************************)
Ord(c) ==
    CASE c = "NUL" -> 0
      [] c = "SOH" -> 1
      [] c = "BS" -> 8
      [] c = "TAB" -> 9
      [] c = "LF" -> 10
      [] c = "FF" -> 12
      [] c = "CR" -> 13
      [] c = " " -> 32
      [] c = "\"" -> 34
      [] c = "+" -> 43
      [] c = "," -> 44
      [] c = "-" -> 45
      [] c = "." -> 46
      [] c = "/" -> 47
      [] c = "0" -> 48
      [] c = "1" -> 49
      [] c = "2" -> 50
      [] c = "3" -> 51
      [] c = "4" -> 52
      [] c = "5" -> 53
      [] c = "6" -> 54
      [] c = "7" -> 55
      [] c = "8" -> 56
      [] c = "9" -> 57
      [] c = ":" -> 58
      [] c = "A" -> 65
      [] c = "B" -> 66
      [] c = "C" -> 67
      [] c = "D" -> 68
      [] c = "E" -> 69
      [] c = "F" -> 70
      [] c = "[" -> 91
      [] c = "\\" -> 92
      [] c = "]" -> 93
      [] c = "_" -> 95
      [] c = "a" -> 97
      [] c = "b" -> 98
      [] c = "c" -> 99
      [] c = "d" -> 100
      [] c = "e" -> 101
      [] c = "f" -> 102
      [] c = "h" -> 104
      [] c = "k" -> 107
      [] c = "l" -> 108
      [] c = "n" -> 110
      [] c = "o" -> 111
      [] c = "p" -> 112
      [] c = "r" -> 114
      [] c = "s" -> 115
      [] c = "t" -> 116
      [] c = "u" -> 117
      [] c = "v" -> 118
      [] c = "x" -> 120
      [] c = "{" -> 123
      [] c = "}" -> 125

\* the bytes of a sequence of one-character strings
Bytes(s) == [i \in 1..Len(s) |-> Ord(s[i])]

\* the character constants of the source
Ch_BS == 8
Ch_TAB == 9
Ch_LF == 10
Ch_FF == 12
Ch_CR == 13
Ch_Space == 32
Ch_Quote == 34
Ch_Plus == 43
Ch_Comma == 44
Ch_Minus == 45
Ch_Point == 46
Ch_0 == 48
Ch_1 == 49
Ch_9 == 57
Ch_Colon == 58
Ch_A == 65
Ch_E == 69
Ch_F == 70
Ch_LBracket == 91
Ch_Backslash == 92
Ch_RBracket == 93
Ch_a == 97
Ch_b == 98
Ch_e == 101
Ch_f == 102
Ch_l == 108
Ch_n == 110
Ch_r == 114
Ch_s == 115
Ch_t == 116
Ch_u == 117
Ch_LBrace == 123
Ch_RBrace == 125

Max(a, b) == IF a >= b THEN a ELSE b

\* *ptr: the byte at a 1-based index of the memory the text lies in.  A read
\* past its end is undefined (see Undefined); it is taken to yield a NUL.
At(mem, ptr) == IF ptr >= 1 /\ ptr <= Len(mem) THEN mem[ptr] ELSE 0

IsDigit(c) == c >= Ch_0 /\ c <= Ch_9

\* a C string: the bytes before the first NUL
RECURSIVE CStrFrom(_, _)
CStrFrom(data, i) ==
    IF i > Len(data) \/ data[i] = 0 THEN <<>>
    ELSE <<data[i]>> \o CStrFrom(data, i + 1)

CStr(data) == CStrFrom(data, 1)

(***************************************************************************)
(* cJSON.h: the node kinds and flags, and the node.                        *)
(***************************************************************************)
cJSON_False == 1
cJSON_True == 2
cJSON_NULL == 4
cJSON_Number == 8
cJSON_String == 16
cJSON_Array == 32
cJSON_Object == 64
cJSON_IsReference == 256
cJSON_StringIsConst == 512
CJSON_NESTING_LIMIT == 1000

\* the limits of int, for (int)n
INT_MAX == 2147483647
INT_MIN == -INT_MAX - 1

\* type & 0xFF
Kind(type) == type % 256
\* type & cJSON_IsReference
IsRef(type) == (type \div cJSON_IsReference) % 2 = 1

\* memset(node, 0, sizeof(cJSON))
ZeroNode ==
    [next |-> 0, prev |-> 0, child |-> 0, type |-> 0, valuestring |-> 0,
     valueint |-> 0, valuedouble |-> [m |-> 0, e |-> 0], string |-> 0]

(***************************************************************************)
(* The heap: nodes and string buffers, each with its count of frees.  A    *)
(* string buffer keeps its allocated size (cap), the bytes written to it   *)
(* in order, terminator included (data), and whether it is owned by the    *)
(* caller rather than allocated by the library (borrowed).                 *)
(***************************************************************************)
EmptyHeap ==
    [nodes |-> <<>>, strs |-> <<>>, nfree |-> <<>>, sfree |-> <<>>,
     nalloc |-> 0, failAt |-> 0]

\* cJSON_malloc: whether this call, the (nalloc+1)-th, succeeds
MallocOk(h) == h.failAt = 0 \/ h.nalloc + 1 # h.failAt

\* cJSON_New_Item: the heap after it, and the node (0 when malloc fails)
cJSON_New_Item(h) ==
    IF MallocOk(h)
    THEN [h |-> [h EXCEPT !.nodes = Append(@, ZeroNode),
                          !.nfree = Append(@, 0),
                          !.nalloc = @ + 1],
          node |-> Len(h.nodes) + 1]
    ELSE [h |-> [h EXCEPT !.nalloc = @ + 1], node |-> 0]

\* cJSON_malloc(cap) of a buffer then filled with data
NewStr(h, cap, data) ==
    IF MallocOk(h)
    THEN [h |-> [h EXCEPT !.strs = Append(@, [cap |-> cap, data |-> data,
                                              borrowed |-> FALSE]),
                          !.sfree = Append(@, 0),
                          !.nalloc = @ + 1],
          str |-> Len(h.strs) + 1]
    ELSE [h |-> [h EXCEPT !.nalloc = @ + 1], str |-> 0]

\* cJSON_free of a string buffer / of a node
FreeStr(h, s) == [h EXCEPT !.sfree[s] = @ + 1]
FreeNode(h, n) == [h EXCEPT !.nfree[n] = @ + 1]

(***************************************************************************)
(* The parser.  A call takes and returns the parser's state: the heap, the *)
(* error position ep, the largest index read so far (reach), the largest   *)
(* number of parse_array / parse_object calls that were on the call stack  *)
(* together (maxDepth), and the returned pointer (ret).                    *)
(***************************************************************************)
ParserStart(h, ep) ==
    [h |-> h, ep |-> ep, reach |-> 0, maxDepth |-> 0, ret |-> 0]

\* a read of the byte at index i
Touch(P, i) == [P EXCEPT !.reach = Max(@, i)]

\* skip: NULL for NULL, else the first index at or after in whose byte is NUL
\* or above 32
RECURSIVE skip(_, _)
skip(mem, in) ==
    IF in = 0 THEN 0
    ELSE IF At(mem, in) # 0 /\ At(mem, in) <= 32 THEN skip(mem, in + 1)
    ELSE in

\* skip(P.ret), with its reads
SkipRet(mem, P) ==
    IF P.ret = 0 THEN P
    ELSE LET v == skip(mem, P.ret) IN [Touch(P, v) EXCEPT !.ret = v]

\* 10^k
RECURSIVE Pow10(_)
Pow10(k) == IF k <= 0 THEN 1 ELSE 10 * Pow10(k - 1)

\* the decimal m * 10^e without trailing zeros in m
RECURSIVE Norm(_, _)
Norm(m, e) ==
    IF m = 0 THEN [m |-> 0, e |-> 0]
    ELSE IF m % 10 = 0 THEN Norm(m \div 10, e + 1)
    ELSE [m |-> m, e |-> e]

Abs(x) == IF x < 0 THEN -x ELSE x

\* whether the decimal d lies in the range of int
\* (|m| < 2^31 in the model, so ten digits or more of scale put it outside)
InIntRange(d) ==
    \/ d.e <= 0
    \/ d.e < 10 /\ Abs(d.m) <= INT_MAX \div Pow10(d.e)

\* (int)n for n in the range of int: truncation toward zero
TruncInt(d) ==
    IF d.e >= 0 THEN d.m * Pow10(d.e)
    ELSE IF -d.e >= 10 THEN 0
    ELSE IF d.m < 0 THEN -((-d.m) \div Pow10(-d.e))
    ELSE d.m \div Pow10(-d.e)

\* parse_number's locals, as it declares them
NumberStart(num) ==
    [num |-> num, n |-> 0, sign |-> 1, scale |-> 0, subscale |-> 0,
     signsubscale |-> 1]

\* if (*num == '-') sign = -1, num++;
NumberSign(mem, s) ==
    IF At(mem, s.num) = Ch_Minus THEN [s EXCEPT !.sign = -1, !.num = @ + 1] ELSE s

\* if (*num == '0') num++;
NumberZero(mem, s) ==
    IF At(mem, s.num) = Ch_0 THEN [s EXCEPT !.num = @ + 1] ELSE s

\* the two loops over the digits of n, the second with scale--
RECURSIVE NumberDigits(_, _, _)
NumberDigits(mem, s, perDigit) ==
    IF IsDigit(At(mem, s.num))
    THEN NumberDigits(mem, [s EXCEPT !.n = @ * 10 + (At(mem, s.num) - Ch_0),
                                     !.scale = @ - perDigit,
                                     !.num = @ + 1], perDigit)
    ELSE s

\* the integer part
NumberInt(mem, s) ==
    IF At(mem, s.num) >= Ch_1 /\ At(mem, s.num) <= Ch_9
    THEN NumberDigits(mem, s, 0)
    ELSE s

\* the fraction
NumberFraction(mem, s) ==
    IF At(mem, s.num) = Ch_Point
    THEN NumberDigits(mem, [s EXCEPT !.num = @ + 1], 1)
    ELSE s

\* the loop over the digits of the exponent
RECURSIVE ExponentDigits(_, _)
ExponentDigits(mem, s) ==
    IF IsDigit(At(mem, s.num))
    THEN ExponentDigits(mem, [s EXCEPT !.subscale = @ * 10 + (At(mem, s.num) - Ch_0),
                                       !.num = @ + 1])
    ELSE s

\* if (*num == '+') num++; else if (*num == '-') signsubscale = -1, num++;
ExponentSign(mem, s) ==
    IF At(mem, s.num) = Ch_Plus THEN [s EXCEPT !.num = @ + 1]
    ELSE IF At(mem, s.num) = Ch_Minus
    THEN [s EXCEPT !.signsubscale = -1, !.num = @ + 1]
    ELSE s

\* the exponent
NumberExponent(mem, s) ==
    IF At(mem, s.num) = Ch_e \/ At(mem, s.num) = Ch_E
    THEN ExponentDigits(mem, ExponentSign(mem, [s EXCEPT !.num = @ + 1]))
    ELSE s

\* parse_number's locals when it has read the text at num
NumberScan(mem, num) ==
    NumberExponent(mem, NumberFraction(mem, NumberInt(mem,
        NumberZero(mem, NumberSign(mem, NumberStart(num))))))

\* n = sign * n * pow(10.0, scale + subscale * signsubscale)
NumberValue(s) == Norm(s.sign * s.n, s.scale + s.subscale * s.signsubscale)

\* The conversion (int)n of a double outside the range of int is undefined:
\* ubInt is the value the build yields for it.
IntOf(n, ubInt) == IF InIntRange(n) THEN TruncInt(n) ELSE ubInt

parse_number(mem, P, item, num, ubInt) ==
    LET Store(s, n) ==
            [Touch(P, s.num) EXCEPT
                !.h.nodes[item].valuedouble = n,
                !.h.nodes[item].valueint = IntOf(n, ubInt),
                !.h.nodes[item].type = cJSON_Number,
                !.ret = s.num]
        Scanned(s) == Store(s, NumberValue(s))
    IN  Scanned(NumberScan(mem, num))

HexVal(c) ==
    IF c >= Ch_0 /\ c <= Ch_9 THEN c - Ch_0
    ELSE IF c >= Ch_A /\ c <= Ch_F THEN c - Ch_A + 10
    ELSE IF c >= Ch_a /\ c <= Ch_f THEN c - Ch_a + 10
    ELSE -1

\* the loop of parse_hex4 from digit i with the value so far
RECURSIVE Hex4Loop(_, _, _, _)
Hex4Loop(mem, str, i, out) ==
    IF i = 4 THEN [ret |-> str + 4, out |-> out, reach |-> str + 3]
    ELSE IF HexVal(At(mem, str + i)) < 0
         THEN [ret |-> 0, out |-> out * 16, reach |-> str + i]
    ELSE Hex4Loop(mem, str, i + 1, out * 16 + HexVal(At(mem, str + i)))

parse_hex4(mem, str) == Hex4Loop(mem, str, 0, 0)

\* the bytes the switch at the end of the \u case writes for uc
Utf8(uc) ==
    IF uc < 128 THEN <<uc>>
    ELSE IF uc < 2048 THEN <<192 + (uc \div 64), 128 + (uc % 64)>>
    ELSE IF uc < 65536
         THEN <<224 + (uc \div 4096), 128 + ((uc \div 64) % 64), 128 + (uc % 64)>>
    ELSE <<240 + (uc \div 262144), 128 + ((uc \div 4096) % 64),
           128 + ((uc \div 64) % 64), 128 + (uc % 64)>>

\* the first loop of parse_string: the index it stops at and len
RECURSIVE MeasureLoop(_, _, _)
MeasureLoop(mem, ptr, len) ==
    IF At(mem, ptr) = Ch_Quote \/ At(mem, ptr) = 0
    THEN [ptr |-> ptr, len |-> len]
    ELSE IF At(mem, ptr) = Ch_Backslash THEN MeasureLoop(mem, ptr + 2, len + 1)
    ELSE MeasureLoop(mem, ptr + 1, len + 1)

\* where the second loop resumes after the escape whose backslash is at ptr
\* and whose hex digits ended just before after (after = 0: a simple escape)
ResumeAfterEscape(ptr, after) == IF after = 0 THEN ptr + 2 ELSE after + 1

\* a rejected \u escape, the last index read being reach
NoCodePoint(reach) == [ret |-> 0, uc |-> 0, reach |-> reach]

\* uc = 0x10000 + (((uc & 0x3FF) << 10) | (uc2 & 0x3FF))
Combine(uc, uc2) == 65536 + ((uc % 1024) * 1024 + (uc2 % 1024))

\* the \u case of the second loop with the backslash at ptr: the code point,
\* the pointer parse_hex4 returned last (0: the literal is rejected) and the
\* last index read
DecodeU(mem, ptr) ==
    LET Second(h1, h2) ==
            IF h2.ret = 0 THEN NoCodePoint(h2.reach)
            ELSE [ret |-> h2.ret, uc |-> Combine(h1.out, h2.out),
                  reach |-> h2.reach]
        First(h1) ==
            IF h1.ret = 0 THEN NoCodePoint(h1.reach)
            ELSE IF h1.out >= 56320 /\ h1.out <= 57343 THEN NoCodePoint(h1.reach)
            ELSE IF h1.out >= 55296 /\ h1.out <= 56319
            THEN IF At(mem, h1.ret) # Ch_Backslash THEN NoCodePoint(h1.ret)
                 ELSE IF At(mem, h1.ret + 1) # Ch_u THEN NoCodePoint(h1.ret + 1)
                 ELSE Second(h1, parse_hex4(mem, h1.ret + 2))
            ELSE [ret |-> h1.ret, uc |-> h1.out, reach |-> h1.reach]
    IN  First(parse_hex4(mem, ptr + 2))

\* the second loop of parse_string from ptr with the bytes written so far:
\* ok is FALSE when the literal is rejected inside the loop
RECURSIVE DecodeLoop(_, _, _)
DecodeLoop(mem, ptr, out) ==
    LET c == At(mem, ptr)
        e == At(mem, ptr + 1)
        Simple(b) == DecodeLoop(mem, ResumeAfterEscape(ptr, 0), Append(out, b))
        Unicode(u) ==
            IF u.ret = 0
            THEN [ok |-> FALSE, ptr |-> 0, out |-> out, reach |-> u.reach]
            ELSE DecodeLoop(mem, ResumeAfterEscape(ptr, u.ret), out \o Utf8(u.uc))
    IN  IF c = Ch_Quote \/ c = 0
        THEN [ok |-> TRUE, ptr |-> ptr, out |-> out, reach |-> ptr]
        ELSE IF c # Ch_Backslash THEN DecodeLoop(mem, ptr + 1, Append(out, c))
        ELSE IF e = Ch_b THEN Simple(Ch_BS)
        ELSE IF e = Ch_f THEN Simple(Ch_FF)
        ELSE IF e = Ch_n THEN Simple(Ch_LF)
        ELSE IF e = Ch_r THEN Simple(Ch_CR)
        ELSE IF e = Ch_t THEN Simple(Ch_TAB)
        ELSE IF e = Ch_u THEN Unicode(DecodeU(mem, ptr))
        ELSE Simple(e)

parse_string(mem, P, item, str) ==
    LET Finish(m, d, a) ==
            IF a.str = 0
            THEN [Touch(P, m.ptr) EXCEPT !.h = a.h, !.ret = 0]
            ELSE IF ~d.ok
            THEN [Touch(P, Max(m.ptr, d.reach)) EXCEPT
                     !.h = FreeStr(a.h, a.str), !.ret = 0]
            ELSE [Touch(P, Max(m.ptr, d.reach)) EXCEPT
                     !.h = [a.h EXCEPT !.nodes[item].type = cJSON_String,
                                       !.nodes[item].valuestring = a.str],
                     !.ret = IF At(mem, d.ptr) = Ch_Quote THEN d.ptr + 1 ELSE d.ptr]
        Decoded(m, d) ==
            Finish(m, d, NewStr(P.h, m.len + 1,
                                IF d.ok THEN Append(d.out, 0) ELSE d.out))
        Measured(m) ==
            IF At(mem, m.ptr) = 0
            THEN [Touch(P, m.ptr) EXCEPT !.ep = str, !.ret = 0]
            ELSE Decoded(m, DecodeLoop(mem, str + 1, <<>>))
    IN  IF At(mem, str) # Ch_Quote
        THEN [Touch(P, str) EXCEPT !.ep = str, !.ret = 0]
        ELSE Measured(MeasureLoop(mem, str + 1, 0))

\* strncmp(value, lit, Len(lit)): the number of leading bytes that agree
RECURSIVE MatchLen(_, _, _, _)
MatchLen(mem, value, lit, i) ==
    IF i >= Len(lit) THEN i
    ELSE IF At(mem, value + i) # lit[i + 1] THEN i
    ELSE MatchLen(mem, value, lit, i + 1)

IsLit(mem, value, lit) == MatchLen(mem, value, lit, 0) = Len(lit)

\* the last index strncmp(value, lit, Len(lit)) reads
LitReach(mem, value, lit) ==
    value + (IF IsLit(mem, value, lit) THEN Len(lit) - 1
             ELSE MatchLen(mem, value, lit, 0))

LitNull == <<Ch_n, Ch_u, Ch_l, Ch_l>>
LitFalse == <<Ch_f, Ch_a, Ch_l, Ch_s, Ch_e>>
LitTrue == <<Ch_t, Ch_r, Ch_u, Ch_e>>

\* the branch parse_value takes on the text at value
ValueKind(mem, value) ==
    LET c == At(mem, value)
    IN  IF value = 0 THEN "NULL"
        ELSE IF IsLit(mem, value, LitNull) THEN "null"
        ELSE IF IsLit(mem, value, LitFalse) THEN "false"
        ELSE IF IsLit(mem, value, LitTrue) THEN "true"
        ELSE IF c = Ch_Quote THEN "string"
        ELSE IF c = Ch_Minus \/ IsDigit(c) THEN "number"
        ELSE IF c = Ch_LBracket THEN "array"
        ELSE IF c = Ch_LBrace THEN "object"
        ELSE "none"

\* the reads of the strncmp calls parse_value makes up to the one of lit
LitReads(mem, P, value, lit) ==
    LET Pn == Touch(P, LitReach(mem, value, LitNull))
        Pf == Touch(Pn, LitReach(mem, value, LitFalse))
    IN  IF lit = LitNull THEN Pn
        ELSE IF lit = LitFalse THEN Pf
        ELSE Touch(Pf, LitReach(mem, value, LitTrue))

\* parse_value, but for its two tail calls, parse_array and parse_object,
\* which are steps of their own (parse_array_begin, parse_object_begin)
parse_value(mem, P, item, value, ubInt) ==
    LET Branch(k, Pt) ==
            IF k = "null"
            THEN [LitReads(mem, P, value, LitNull) EXCEPT
                     !.h.nodes[item].type = cJSON_NULL, !.ret = value + 4]
            ELSE IF k = "false"
            THEN [LitReads(mem, P, value, LitFalse) EXCEPT
                     !.h.nodes[item].type = cJSON_False, !.ret = value + 5]
            ELSE IF k = "true"
            THEN [Pt EXCEPT !.h.nodes[item].type = cJSON_True,
                            !.h.nodes[item].valueint = 1, !.ret = value + 4]
            ELSE IF k = "string" THEN parse_string(mem, Pt, item, value)
            ELSE IF k = "number" THEN parse_number(mem, Pt, item, value, ubInt)
            ELSE [Pt EXCEPT !.ep = value, !.ret = 0]
    IN  IF value = 0 THEN [P EXCEPT !.ret = 0]
        ELSE Branch(ValueKind(mem, value), LitReads(mem, P, value, LitTrue))

\* child->next = new_item; new_item->prev = child
LinkAfter(h, child, new_item) ==
    [h EXCEPT !.nodes[child].next = new_item, !.nodes[new_item].prev = child]

\* The key of a member of parse_object, value being at the key: the key is
\* parsed as a string into child and moved to child->string, and the colon is
\* checked.  ret is the colon's index, or NULL.
ParseKey(mem, P, child, value) ==
    LET Moved(P1) ==
            [P1 EXCEPT !.h.nodes[child].string = P1.h.nodes[child].valuestring,
                       !.h.nodes[child].valuestring = 0]
        Colon(P1, P2) ==
            IF At(mem, P1.ret) # Ch_Colon
            THEN [P2 EXCEPT !.ep = P1.ret, !.ret = 0]
            ELSE P2
        Keyed(P1) == IF P1.ret = 0 THEN P1 ELSE Colon(P1, Moved(P1))
    IN  Keyed(SkipRet(mem, parse_string(mem, P, child, value)))

(***************************************************************************)
(* cJSON_Delete.                                                           *)
(***************************************************************************)
RECURSIVE cJSON_Delete(_, _)

\* a variant: cJSON_Delete that leaves c->string allocated
cJSON_Delete_KeepsKey(h, c) ==
    LET nd == h.nodes[c]
        h1 == IF ~IsRef(nd.type) /\ nd.child # 0
              THEN cJSON_Delete(h, nd.child) ELSE h
        h2 == IF ~IsRef(nd.type) /\ nd.valuestring # 0
              THEN FreeStr(h1, nd.valuestring) ELSE h1
    IN  IF c = 0 THEN h
        ELSE cJSON_Delete(FreeNode(h2, c), nd.next)

\* a variant: cJSON_Delete that stops at c instead of going on to c->next
cJSON_Delete_OneNode(h, c) ==
    LET nd == h.nodes[c]
        h1 == IF ~IsRef(nd.type) /\ nd.child # 0
              THEN cJSON_Delete(h, nd.child) ELSE h
        h2 == IF ~IsRef(nd.type) /\ nd.valuestring # 0
              THEN FreeStr(h1, nd.valuestring) ELSE h1
        h3 == IF nd.string # 0 THEN FreeStr(h2, nd.string) ELSE h2
    IN  IF c = 0 THEN h
        ELSE FreeNode(h3, c)

\* while (c) { next = c->next; ...; c = next; }
cJSON_Delete(h, c) ==
    LET nd == h.nodes[c]
        h1 == IF ~IsRef(nd.type) /\ nd.child # 0
              THEN cJSON_Delete(h, nd.child) ELSE h
        h2 == IF ~IsRef(nd.type) /\ nd.valuestring # 0
              THEN FreeStr(h1, nd.valuestring) ELSE h1
        h3 == IF nd.string # 0 THEN FreeStr(h2, nd.string) ELSE h2
    IN  IF c = 0 THEN h
        ELSE cJSON_Delete(FreeNode(h3, c), nd.next)

(***************************************************************************)
(* The value tree: lists of children.                                      *)
(***************************************************************************)
\* the nodes from c on along next
RECURSIVE Chain(_, _)
Chain(h, c) == IF c = 0 THEN <<>> ELSE <<c>> \o Chain(h, h.nodes[c].next)

\* the children of a node in forward order
Children(h, a) == IF a = 0 THEN <<>> ELSE Chain(h, h.nodes[a].child)

cJSON_GetArraySize(h, array) == Len(Children(h, array))

\* while (c && which > 0) c = c->next, which--;
RECURSIVE WalkTo(_, _, _)
WalkTo(h, c, which) ==
    IF c # 0 /\ which > 0 THEN WalkTo(h, h.nodes[c].next, which - 1) ELSE c

\* a variant: cJSON_DetachItemFromArray without c->prev = c->next = NULL
cJSON_DetachItemFromArray_KeepsLinks(h, array, which) ==
    LET c == WalkTo(h, IF array # 0 THEN h.nodes[array].child ELSE 0, which)
        nd == h.nodes[c]
        h1 == IF nd.prev # 0 THEN [h EXCEPT !.nodes[nd.prev].next = nd.next] ELSE h
        h2 == IF nd.next # 0 THEN [h1 EXCEPT !.nodes[nd.next].prev = nd.prev] ELSE h1
        h3 == IF c = h2.nodes[array].child
              THEN [h2 EXCEPT !.nodes[array].child = nd.next] ELSE h2
    IN  IF c = 0 THEN [h |-> h, c |-> 0]
        ELSE [h |-> h3, c |-> c]

\* cJSON_DetachItemFromArray: the heap after it and the node returned
cJSON_DetachItemFromArray(h, array, which) ==
    LET c == WalkTo(h, IF array # 0 THEN h.nodes[array].child ELSE 0, which)
        nd == h.nodes[c]
        h1 == IF nd.prev # 0 THEN [h EXCEPT !.nodes[nd.prev].next = nd.next] ELSE h
        h2 == IF nd.next # 0 THEN [h1 EXCEPT !.nodes[nd.next].prev = nd.prev] ELSE h1
        h3 == IF c = h2.nodes[array].child
              THEN [h2 EXCEPT !.nodes[array].child = nd.next] ELSE h2
    IN  IF c = 0 THEN [h |-> h, c |-> 0]
        ELSE [h |-> [h3 EXCEPT !.nodes[c].prev = 0, !.nodes[c].next = 0],
              c |-> c]

\* cJSON_DeleteItemFromArray: the heap after it
cJSON_DeleteItemFromArray(h, array, which) ==
    LET d == cJSON_DetachItemFromArray(h, array, which)
    IN  IF d.c # 0 THEN cJSON_Delete(d.h, d.c) ELSE d.h

(***************************************************************************)
(* Creating items and adding them to a container.                          *)
(***************************************************************************)
\* cJSON_strdup of the C string src: the heap after it, and the copy
cJSON_strdup(h, src) == NewStr(h, Len(src) + 1, Append(src, 0))

\* a string the caller owns (a constant of the caller's program): the heap
\* that holds it too, and the string
CallerString(h, src) ==
    [h |-> [h EXCEPT !.strs = Append(@, [cap |-> Len(src) + 1,
                                         data |-> Append(src, 0),
                                         borrowed |-> TRUE]),
                     !.sfree = Append(@, 0)],
     str |-> Len(h.strs) + 1]

\* item->type = type on a new item (NULL when malloc fails)
CreateOfType(h, type) ==
    LET new == cJSON_New_Item(h)
    IN  IF new.node = 0 THEN new
        ELSE [h |-> [new.h EXCEPT !.nodes[new.node].type = type],
              node |-> new.node]

cJSON_CreateNull(h) == CreateOfType(h, cJSON_NULL)

cJSON_CreateArray(h) == CreateOfType(h, cJSON_Array)

cJSON_CreateObject(h) == CreateOfType(h, cJSON_Object)

cJSON_CreateString(h, string) ==
    LET new == CreateOfType(h, cJSON_String)
        dup == cJSON_strdup(new.h, string)
    IN  IF new.node = 0 THEN new
        ELSE [h |-> [dup.h EXCEPT !.nodes[new.node].valuestring = dup.str],
              node |-> new.node]

\* while (c && c->next) c = c->next;
RECURSIVE LastOf(_, _)
LastOf(h, c) ==
    IF c # 0 /\ h.nodes[c].next # 0 THEN LastOf(h, h.nodes[c].next) ELSE c

cJSON_AddItemToArray(h, array, item) ==
    LET c == h.nodes[array].child
        tail == LastOf(h, c)
    IN  IF c = 0 THEN [h EXCEPT !.nodes[array].child = item]
        ELSE [h EXCEPT !.nodes[tail].next = item, !.nodes[item].prev = tail]

\* the member's key is a copy of string
cJSON_AddItemToObject(h, object, string, item) ==
    LET dup == cJSON_strdup(h, string)
    IN  cJSON_AddItemToArray([dup.h EXCEPT !.nodes[item].string = dup.str],
                             object, item)

\* type | cJSON_StringIsConst
WithStringIsConst(type) ==
    IF (type \div cJSON_StringIsConst) % 2 = 1 THEN type
    ELSE type + cJSON_StringIsConst

\* the member's key is the caller's string itself
cJSON_AddItemToObjectCS(h, object, string, item) ==
    cJSON_AddItemToArray([h EXCEPT !.nodes[item].string = string,
                                   !.nodes[item].type = WithStringIsConst(@)],
                         object, item)

(***************************************************************************)
(* Looking a member up by its key.                                         *)
(***************************************************************************)
\* tolower of a byte, in the C locale
ToLower(ch) == IF ch >= 65 /\ ch <= 90 THEN ch + 32 ELSE ch

\* the byte of the C string s at the 1-based index i (the terminator past it)
ByteOf(s, i) == IF i <= Len(s) THEN s[i] ELSE 0

\* cJSON_strcasecmp's loop over two C strings from i on
RECURSIVE CaseCmpFrom(_, _, _)
CaseCmpFrom(s1, s2, i) ==
    IF ToLower(ByteOf(s1, i)) # ToLower(ByteOf(s2, i))
    THEN ToLower(ByteOf(s1, i)) - ToLower(ByteOf(s2, i))
    ELSE IF ByteOf(s1, i) = 0 THEN 0
    ELSE CaseCmpFrom(s1, s2, i + 1)

\* cJSON_strcasecmp(s1, s2) of the buffer s1 (0: NULL) and the C string s2
cJSON_strcasecmp(h, s1, s2) ==
    IF s1 = 0 THEN 1 ELSE CaseCmpFrom(CStr(h.strs[s1].data), s2, 1)

\* while (c && cJSON_strcasecmp(c->string, string)) c = c->next;
RECURSIVE WalkCaseless(_, _, _)
WalkCaseless(h, c, string) ==
    IF c # 0 /\ cJSON_strcasecmp(h, h.nodes[c].string, string) # 0
    THEN WalkCaseless(h, h.nodes[c].next, string)
    ELSE c

\* the node found (0: none); ub: never
cJSON_GetObjectItem(h, object, string) ==
    [c |-> WalkCaseless(h, IF object # 0 THEN h.nodes[object].child ELSE 0, string),
     ub |-> FALSE]

\* while (c && strcmp(c->string, string)) c = c->next; strcmp of a NULL
\* c->string is undefined: the walk is taken to stop there, finding nothing
RECURSIVE WalkExact(_, _, _)
WalkExact(h, c, string) ==
    IF c = 0 THEN [c |-> 0, ub |-> FALSE]
    ELSE IF h.nodes[c].string = 0 THEN [c |-> 0, ub |-> TRUE]
    ELSE IF CStr(h.strs[h.nodes[c].string].data) # string
    THEN WalkExact(h, h.nodes[c].next, string)
    ELSE [c |-> c, ub |-> FALSE]

\* a variant: cJSON_GetObjectItemCaseSensitive that compares as
\* cJSON_GetObjectItem does
cJSON_GetObjectItemCaseSensitive_Caseless(h, object, string) ==
    cJSON_GetObjectItem(h, object, string)

\* the node found (0: none); ub: strcmp was given a NULL
cJSON_GetObjectItemCaseSensitive(h, object, string) ==
    WalkExact(h, IF object # 0 THEN h.nodes[object].child ELSE 0, string)

\* cJSON_IsString, cJSON_IsObject of a node (0: NULL)
cJSON_IsString(h, item) == item # 0 /\ Kind(h.nodes[item].type) = cJSON_String

cJSON_IsObject(h, item) == item # 0 /\ Kind(h.nodes[item].type) = cJSON_Object

(***************************************************************************)
(* put.c: the settings of the upload.  An optional C string (an option not *)
(* given, an environment variable not set, a NULL) is the empty sequence,  *)
(* and a string s given is <<s>>.                                          *)
(***************************************************************************)
URL_SIZE == 512
TOKEN_SIZE == 512

\* the keys parse_config and apply_server_object look up
KeyDefaultServer ==
    Bytes(<<"d", "e", "f", "a", "u", "l", "t", "_", "s", "e", "r", "v", "e", "r">>)
KeyDefaultToken ==
    Bytes(<<"d", "e", "f", "a", "u", "l", "t", "_", "t", "o", "k", "e", "n">>)
KeyServers == Bytes(<<"s", "e", "r", "v", "e", "r", "s">>)
KeyUrl == Bytes(<<"u", "r", "l">>)
KeyToken == Bytes(<<"t", "o", "k", "e", "n">>)

\* main's initial cfg
DefaultUrl ==
    Bytes(<<"h", "t", "t", "p", "s", ":", "/", "/", "e", "p", "a", ".", "s", "t",
            "/", "u", "p", "l", "o", "a", "d">>)
DefaultConfig == [url |-> DefaultUrl, token |-> <<>>]

\* copy_string(dest, cap, src) of a src that is not NULL: dest after it
copy_string(cap, src) ==
    IF Len(src) <= cap - 1 THEN src ELSE SubSeq(src, 1, cap - 1)

\* if (cJSON_IsString(item) && item->valuestring) copy_string(dest, cap, ...)
CopyIfString(h, item, cap, dest) ==
    IF cJSON_IsString(h, item) /\ h.nodes[item].valuestring # 0
    THEN copy_string(cap, CStr(h.strs[h.nodes[item].valuestring].data))
    ELSE dest

\* apply_server_object: cfg after it, and whether a lookup was undefined
apply_server_object(h, server_obj, cfg) ==
    LET url == cJSON_GetObjectItemCaseSensitive(h, server_obj, KeyUrl)
        token == cJSON_GetObjectItemCaseSensitive(h, server_obj, KeyToken)
    IN  [cfg |-> [url |-> CopyIfString(h, url.c, URL_SIZE, cfg.url),
                  token |-> CopyIfString(h, token.c, TOKEN_SIZE, cfg.token)],
         ub |-> url.ub \/ token.ub]

\* parse_config from the return of cJSON_ParseWithLength on (root: what it
\* returned), up to cJSON_Delete(root): cfg after it, and whether a lookup
\* was undefined
parse_config(h, root, cfg, server_name) ==
    LET servers == cJSON_GetObjectItemCaseSensitive(h, root, KeyServers)
        server == IF cJSON_IsObject(h, servers.c)
                  THEN cJSON_GetObjectItemCaseSensitive(h, servers.c, server_name[1])
                  ELSE [c |-> 0, ub |-> FALSE]
        applied == IF cJSON_IsObject(h, server.c)
                   THEN apply_server_object(h, server.c, cfg)
                   ELSE [cfg |-> cfg, ub |-> FALSE]
        default_url == cJSON_GetObjectItemCaseSensitive(h, root, KeyDefaultServer)
        default_token == cJSON_GetObjectItemCaseSensitive(h, root, KeyDefaultToken)
    IN  IF root = 0 THEN [cfg |-> cfg, ub |-> FALSE]
        ELSE IF server_name # <<>>
        THEN [cfg |-> applied.cfg, ub |-> servers.ub \/ server.ub \/ applied.ub]
        ELSE [cfg |-> [url |-> CopyIfString(h, default_url.c, URL_SIZE, cfg.url),
                       token |-> CopyIfString(h, default_token.c, TOKEN_SIZE, cfg.token)],
              ub |-> default_url.ub \/ default_token.ub]

\* if (value) copy_string(dest, cap, value): an override by the environment
\* or by the command line
Override(value, cap, dest) ==
    IF value # <<>> THEN copy_string(cap, value[1]) ELSE dest

\* main: the overrides of the environment, then those of the command line
Overrides(cfg, args) ==
    [url |-> Override(args.cli_url, URL_SIZE,
                      Override(args.env_url, URL_SIZE, cfg.url)),
     token |-> Override(args.cli_token, TOKEN_SIZE,
                        Override(args.env_token, TOKEN_SIZE, cfg.token))]

(***************************************************************************)
(* The printer.  A print function yields the text it returns without its   *)
(* terminator (text), whether it returns NULL instead (null), and whether  *)
(* it wrote past the end of a buffer it allocated or dereferenced NULL     *)
(* (ub).  Its allocations are taken to succeed.                            *)
(***************************************************************************)
HexDigit(d) == IF d < 10 THEN Ch_0 + d ELSE Ch_a + (d - 10)

\* what the second loop of print_string_ptr writes for the byte c
EscapeByte(c) ==
    IF c = Ch_Backslash THEN <<Ch_Backslash, Ch_Backslash>>
    ELSE IF c = Ch_Quote THEN <<Ch_Backslash, Ch_Quote>>
    ELSE IF c = Ch_BS THEN <<Ch_Backslash, Ch_b>>
    ELSE IF c = Ch_FF THEN <<Ch_Backslash, Ch_f>>
    ELSE IF c = Ch_LF THEN <<Ch_Backslash, Ch_n>>
    ELSE IF c = Ch_CR THEN <<Ch_Backslash, Ch_r>>
    ELSE IF c = Ch_TAB THEN <<Ch_Backslash, Ch_t>>
    ELSE IF c < 32
    THEN <<Ch_Backslash, Ch_u, Ch_0, Ch_0,
           HexDigit(c \div 16), HexDigit(c % 16)>>
    ELSE <<c>>

\* what the first loop of print_string_ptr adds to len for the byte c
EscapeLen(c) == IF c < 32 \/ c = Ch_Quote \/ c = Ch_Backslash THEN 2 ELSE 1

RECURSIVE EscapeAll(_, _)
EscapeAll(str, i) ==
    IF i > Len(str) THEN <<>> ELSE EscapeByte(str[i]) \o EscapeAll(str, i + 1)

RECURSIVE MeasureAll(_, _)
MeasureAll(str, i) ==
    IF i > Len(str) THEN 0 ELSE EscapeLen(str[i]) + MeasureAll(str, i + 1)

\* print_string_ptr of the buffer s (0: NULL)
print_string_ptr(h, s) ==
    LET str == CStr(h.strs[s].data)
        out == <<Ch_Quote>> \o EscapeAll(str, 1) \o <<Ch_Quote>>
    IN  IF s = 0 THEN [text |-> <<>>, null |-> TRUE, ub |-> FALSE]
        ELSE [text |-> out, null |-> FALSE,
              ub |-> Len(out) + 1 > MeasureAll(str, 1) + 3]

\* the decimal digits of n >= 0, none for 0
RECURSIVE Digits(_)
Digits(n) ==
    IF n = 0 THEN <<>> ELSE Digits(n \div 10) \o <<Ch_0 + (n % 10)>>

\* the decimal digits of -n for n <= 0, none for 0
RECURSIVE DigitsNeg(_)
DigitsNeg(n) ==
    IF n = 0 THEN <<>>
    ELSE LET d == (10 - (n % 10)) % 10
         IN  DigitsNeg((n + d) \div 10) \o <<Ch_0 + d>>

\* sprintf "%d"
FormatD(n) ==
    IF n = 0 THEN <<Ch_0>>
    ELSE IF n < 0 THEN <<Ch_Minus>> \o DigitsNeg(n)
    ELSE Digits(n)

Zeros(k) == [i \in 1..k |-> Ch_0]

\* n >= 0 in exactly k digits
PadDigits(n, k) == Zeros(k - Len(Digits(n))) \o Digits(n)

\* sprintf "%f" of the decimal d: six digits after the point.  A decimal with
\* more than six is rounded to the nearest, a tie to even.
FormatF(d) ==
    LET a == Abs(d.m)
        k == -d.e
        sign == IF d.m < 0 THEN <<Ch_Minus>> ELSE <<>>
        cut == IF k - 6 >= 10 THEN 0 ELSE a \div Pow10(k - 6)
        rem == IF k - 6 >= 10 THEN 0 ELSE a % Pow10(k - 6)
        half == IF k - 6 >= 10 THEN 1 ELSE Pow10(k - 6)
        up == 2 * rem > half \/ (2 * rem = half /\ cut % 2 = 1)
        r == IF up THEN cut + 1 ELSE cut
        whole(q) == IF q = 0 THEN <<Ch_0>> ELSE Digits(q)
    IN  IF d.e >= 0
        THEN sign \o whole(a) \o Zeros(IF a = 0 THEN 0 ELSE d.e)
                  \o <<Ch_Point>> \o Zeros(6)
        ELSE IF k <= 6
        THEN sign \o whole(a \div Pow10(k)) \o <<Ch_Point>>
                  \o PadDigits(a % Pow10(k), k) \o Zeros(6 - k)
        ELSE sign \o whole(r \div 1000000) \o <<Ch_Point>>
                  \o PadDigits(r % 1000000, 6)

\* the Number case of print_value: the text of its 32-byte buffer
PrintNumber(nd) ==
    LET d == nd.valuedouble
        out == IF d.e >= 0 /\ InIntRange(d) /\ TruncInt(d) = nd.valueint
               THEN FormatD(nd.valueint)
               ELSE FormatF(d)
    IN  [text |-> out, null |-> FALSE, ub |-> Len(out) + 1 > 32]

\* cJSON_strdup of a literal
Lit(s) == [text |-> s, null |-> FALSE, ub |-> FALSE]

Tabs(k) == [i \in 1..k |-> Ch_TAB]

\* the entries joined by the separator
RECURSIVE Join(_, _, _)
Join(entries, sep, i) ==
    IF i > Len(entries) THEN <<>>
    ELSE IF i = Len(entries) THEN entries[i]
    ELSE entries[i] \o sep \o Join(entries, sep, i + 1)

\* the sum of strlen(entries[i]) + extra
RECURSIVE SumLen(_, _, _)
SumLen(entries, extra, i) ==
    IF i > Len(entries) THEN 0
    ELSE Len(entries[i]) + extra + SumLen(entries, extra, i + 1)

RECURSIVE print_value(_, _, _, _)

print_array(h, item, formatted, depth) ==
    LET kids == Children(h, item)
        vals == [i \in 1..Len(kids) |-> print_value(h, kids[i], formatted, depth + 1)]
        entries == [i \in 1..Len(kids) |-> vals[i].text]
        fm == IF formatted THEN 1 ELSE 0
        len == 5 + SumLen(entries, 2 + fm, 1)
        sep == IF formatted THEN <<Ch_Comma, Ch_Space>> ELSE <<Ch_Comma>>
        out == <<Ch_LBracket>> \o Join(entries, sep, 1) \o <<Ch_RBracket>>
        childUb == \E i \in 1..Len(kids) : vals[i].ub
    IN  IF Len(kids) = 0 THEN Lit(<<Ch_LBracket, Ch_RBracket>>)
        ELSE IF \E i \in 1..Len(kids) : vals[i].null
        THEN [text |-> <<>>, null |-> TRUE, ub |-> childUb]
        ELSE [text |-> out, null |-> FALSE,
              ub |-> childUb \/ Len(out) + 1 > len + 1]

print_object(h, item, formatted, depth) ==
    LET kids == Children(h, item)
        keys == [i \in 1..Len(kids) |-> print_string_ptr(h, h.nodes[kids[i]].string)]
        vals == [i \in 1..Len(kids) |-> print_value(h, kids[i], formatted, depth + 1)]
        fm == IF formatted THEN 1 ELSE 0
        \* strlen(key), strlen(val) of a NULL key or val
        deref == \E i \in 1..Len(kids) : keys[i].null \/ vals[i].null
        entries == [i \in 1..Len(kids) |->
                       (IF formatted THEN Tabs(depth + 1) ELSE <<>>)
                       \o keys[i].text \o <<Ch_Colon>>
                       \o (IF formatted THEN <<Ch_Space>> ELSE <<>>)
                       \o vals[i].text]
        \* entries[i]: needed + 1 + (formatted ? depth + 1 : 0) bytes
        entryUb == \E i \in 1..Len(kids) :
                       Len(entries[i]) + 1 >
                           Len(keys[i].text) + Len(vals[i].text) + 2 + 1
                           + (IF formatted THEN depth + 1 ELSE 0)
        len == 7 + SumLen(entries, 2 + fm, 1)
        sep == IF formatted THEN <<Ch_Comma, Ch_LF>> ELSE <<Ch_Comma>>
        out == <<Ch_LBrace>> \o (IF formatted THEN <<Ch_LF>> ELSE <<>>)
               \o Join(entries, sep, 1)
               \o (IF formatted THEN <<Ch_LF>> \o Tabs(depth) ELSE <<>>)
               \o <<Ch_RBrace>>
        childUb == \E i \in 1..Len(kids) : keys[i].ub \/ vals[i].ub
    IN  IF Len(kids) = 0 THEN Lit(<<Ch_LBrace, Ch_RBrace>>)
        ELSE IF deref THEN [text |-> <<>>, null |-> TRUE, ub |-> TRUE]
        ELSE [text |-> out, null |-> FALSE,
              ub |-> childUb \/ entryUb
                     \/ Len(out) + 1 > len + 1 + (IF formatted THEN depth ELSE 0)]

print_value(h, item, formatted, depth) ==
    LET nd == h.nodes[item]
        k == Kind(nd.type)
    IN  IF k = cJSON_NULL THEN Lit(LitNull)
        ELSE IF k = cJSON_False THEN Lit(LitFalse)
        ELSE IF k = cJSON_True THEN Lit(LitTrue)
        ELSE IF k = cJSON_Number THEN PrintNumber(nd)
        ELSE IF k = cJSON_String THEN print_string_ptr(h, nd.valuestring)
        ELSE IF k = cJSON_Array THEN print_array(h, item, formatted, depth)
        ELSE IF k = cJSON_Object THEN print_object(h, item, formatted, depth)
        ELSE [text |-> <<>>, null |-> TRUE, ub |-> FALSE]

cJSON_Print(h, item) == print_value(h, item, TRUE, 0)

cJSON_PrintUnformatted(h, item) == print_value(h, item, FALSE, 0)

\* memcpy(buffer, src, n) into the caller's buffer, given as the bytes it
\* holds: a copy longer than the buffer goes past its end
Memcpy(buffer, src) ==
    IF Len(src) >= Len(buffer) THEN src
    ELSE src \o SubSeq(buffer, Len(src) + 1, Len(buffer))

\* a variant: cJSON_PrintPreallocated that leaves the terminator out of its
\* test of the length
cJSON_PrintPreallocated_OffByOne(h, item, buffer, length, format) ==
    LET r == IF format THEN cJSON_Print(h, item) ELSE cJSON_PrintUnformatted(h, item)
    IN  IF r.null THEN [ret |-> 0, buffer |-> buffer, ub |-> r.ub]
        ELSE IF Len(r.text) > length THEN [ret |-> 0, buffer |-> buffer, ub |-> r.ub]
        ELSE [ret |-> 1, buffer |-> Memcpy(buffer, Append(r.text, 0)), ub |-> r.ub]

\* cJSON_PrintPreallocated: what it returns, the caller's buffer after it,
\* and whether the print wrote past a buffer of its own
cJSON_PrintPreallocated(h, item, buffer, length, format) ==
    LET r == IF format THEN cJSON_Print(h, item) ELSE cJSON_PrintUnformatted(h, item)
    IN  IF r.null THEN [ret |-> 0, buffer |-> buffer, ub |-> r.ub]
        ELSE IF Len(r.text) + 1 > length THEN [ret |-> 0, buffer |-> buffer, ub |-> r.ub]
        ELSE [ret |-> 1, buffer |-> Memcpy(buffer, Append(r.text, 0)), ub |-> r.ub]

\* the tree under a node as a value: kind, numbers, string payload, key and
\* the children in order ("none" for a NULL string)
StrOf(h, s) == IF s = 0 THEN "none" ELSE CStr(h.strs[s].data)

RECURSIVE TreeOf(_, _)
TreeOf(h, n) ==
    LET nd == h.nodes[n]
        kids == Children(h, n)
    IN  [kind |-> Kind(nd.type),
         valueint |-> nd.valueint,
         valuedouble |-> nd.valuedouble,
         valuestring |-> StrOf(h, nd.valuestring),
         string |-> StrOf(h, nd.string),
         children |-> [i \in 1..Len(kids) |-> TreeOf(h, kids[i])]]

(***************************************************************************)
(* The texts given to the parser.                                          *)
(***************************************************************************)
\* all sequences of at most n elements of S, concatenated
RECURSIVE Concats(_, _)
Concats(S, n) ==
    IF n = 0 THEN {<<>>}
    ELSE LET shorter == Concats(S, n - 1)
         IN  shorter \cup {t \o x : t \in shorter, x \in S}

Hex4Escape(a, b, c, d) == Bytes(<<"\\", "u", a, b, c, d>>)

\* the pieces of a string literal's body
StrTokens ==
    { Bytes(<<"a">>),
      Bytes(<<"SOH">>),
      Bytes(<<"\\", "\"">>),
      Bytes(<<"\\", "\\">>),
      Bytes(<<"\\", "n">>),
      Hex4Escape("0", "0", "4", "1"),
      Hex4Escape("0", "0", "e", "9"),
      Hex4Escape("2", "0", "a", "c"),
      Hex4Escape("d", "8", "3", "d"),
      Hex4Escape("d", "e", "0", "0") }

StrBodies == Concats(StrTokens, MaxStrTokens)

Quoted(body) == <<Ch_Quote>> \o body \o <<Ch_Quote>>

\* a string literal alone, followed by more text that holds a quote, as the
\* first element of an array, and as the key of a member
StringTexts ==
    UNION { { Quoted(b),
              Quoted(b) \o Bytes(<<"a", "a", "a", "a", "a", "\"">>),
              Bytes(<<"[">>) \o Quoted(b) \o Bytes(<<",", "\"", "a", "\"", "]">>),
              Bytes(<<"{">>) \o Quoted(b) \o Bytes(<<":", "1", "}">>) }
            : b \in StrBodies }

StructTokens ==
    { Bytes(<<"[">>), Bytes(<<"]">>), Bytes(<<"{">>), Bytes(<<"}">>),
      Bytes(<<",">>), Bytes(<<":">>), Bytes(<<"1">>),
      Bytes(<<"\"", "a", "\"">>) }

StructTexts == Concats(StructTokens, MaxStructTokens)

Documents ==
    { Bytes(<<"n", "u", "l", "l">>),
      Bytes(<<"n", "u", "l", "l", "x">>),
      Bytes(<<"t", "r", "u", "e">>),
      Bytes(<<"f", "a", "l", "s", "e">>),
      Bytes(<<" ", " ">>),
      Bytes(<<"-", "1", "2", ".", "5">>),
      Bytes(<<"1", "e", "2">>),
      Bytes(<<"1", "e", "1", "0">>),
      Bytes(<<"1", "e", "3", "0">>),
      Bytes(<<"1", "2">>),
      Bytes(<<" ", "[", " ", "1", " ", ",", " ", "2", " ", "]", " ">>),
      Bytes(<<"[", "1", ",", "2", ",", "3", "]">>),
      Bytes(<<"[", "1", ",", "[", "2", ",", "\"", "a", "\"", "]", ",", "3", "]">>),
      Bytes(<<"[", "[", "1", "]", ",", "2", ",", "{", "\"", "a", "\"", ":", "3", "}", "]">>),
      Bytes(<<"{", "\"", "a", "\"", ":", "1", ",", "\"", "a", "\"", ":", "2", "}">>),
      Bytes(<<"{", "\"", "a", "\"", ":", "[", "1", ",", "2", "]", ",",
              "\"", "b", "\"", ":", "{", "\"", "c", "\"", ":", "n", "u", "l", "l", "}", "}">>),
      Bytes(<<"[", "\"", "SOH", "\"", "]">>),
      Bytes(<<"[", "-", "7", ",", "0", ".", "2", "5", ",", "t", "r", "u", "e", "]">>) }

Texts == StringTexts \cup StructTexts \cup Documents

\* n opening brackets, then n closing ones
Deep(n) == [i \in 1..n |-> Ch_LBracket] \o [i \in 1..n |-> Ch_RBracket]

\* The memory a text lies in: the text and its terminator (put.c's
\* read_entire_file).
MemOf(t) == Append(t, 0)

\* the declared lengths a text is parsed with: none, all of it, and for a
\* document every length in between
BufferLengths(t) ==
    {0, Len(t)} \cup (IF t \in Documents THEN 1..Len(t) ELSE {})

(***************************************************************************)
(* The state.                                                              *)
(***************************************************************************)
VARIABLES
    mem,            \* the memory the text being parsed lies in
    buffer_length,  \* the declared length of that text
    P,              \* the parser's state, the heap in it
    stack,          \* the parse_array / parse_object calls in progress
    call,           \* the arguments of the pending parse_value call
    c,              \* cJSON_ParseWithLength's c, the root of the parse
    pc,             \* idle, call, ret, done, printed, deleted, crashed
    tree,           \* the tree the last parse returned (0: NULL)
    orig,           \* the tree that was printed (0: none yet)
    text,           \* the text the printer returned, terminator included
    held,           \* the item the last detach returned (0: NULL)
    last,           \* the last call on the tree, with the heap before it
    ops,            \* the number of edits of the tree
    ub              \* undefined behaviour has happened

vars == <<mem, buffer_length, P, stack, call, c, pc, tree, orig, text, held,
          last, ops, ub>>

NoCall == [item |-> 0, value |-> 0]
NoLast == [op |-> "none"]

\* a write past the end of a string buffer
StrOverflow(h) == \E s \in 1..Len(h.strs) : Len(h.strs[s].data) > h.strs[s].cap

InitWith(family) ==
    /\ mem \in {MemOf(t) : t \in family}
    /\ buffer_length = 0
    /\ P = ParserStart(EmptyHeap, 0)
    /\ stack = <<>>
    /\ call = NoCall
    /\ c = 0
    /\ pc = "idle"
    /\ tree = 0
    /\ orig = 0
    /\ text = <<>>
    /\ held = 0
    /\ last = NoLast
    /\ ops = 0
    /\ ub = FALSE

Init == InitWith(Texts)

\* the text the memory was made of
TextOf(m) == SubSeq(m, 1, Len(m) - 1)

Top == stack[Len(stack)]
Pop == SubSeq(stack, 1, Len(stack) - 1)

\* a read past the end of the memory the text lies in, or a write past the
\* end of a buffer
Undefined(m, Q) == Q.reach > Len(m) \/ StrOverflow(Q.h)

(***************************************************************************)
(* cJSON_ParseWithLength, a step per call of parse_value and per return    *)
(* into parse_array / parse_object.                                        *)
(***************************************************************************)
\* cJSON_ParseWithLength(m, n) up to its call of parse_value, the f-th malloc
\* failing (0: none)
StartParse(m, n, f) ==
    LET h0 == [P.h EXCEPT !.failAt = f, !.nalloc = 0]
        new == cJSON_New_Item(h0)
        v == skip(m, 1)
    IN  /\ mem' = m
        /\ buffer_length' = n
        /\ stack' = <<>>
        /\ IF n = 0
           THEN /\ P' = [P EXCEPT !.h = h0, !.reach = 0, !.maxDepth = 0, !.ret = 0]
                /\ c' = 0 /\ call' = NoCall /\ tree' = 0 /\ pc' = "done"
           ELSE IF new.node = 0
           THEN /\ P' = [P EXCEPT !.h = new.h, !.reach = 0, !.maxDepth = 0, !.ret = 0]
                /\ c' = 0 /\ call' = NoCall /\ tree' = 0 /\ pc' = "done"
           ELSE /\ P' = Touch(ParserStart(new.h, 0), v)
                /\ c' = new.node
                /\ call' = [item |-> new.node, value |-> v]
                /\ tree' = 0
                /\ pc' = "call"
        /\ ub' = (ub \/ v > Len(m))

\* the program parses the text
ParseText(n, f) ==
    /\ pc = "idle"
    /\ StartParse(mem, n, f)
    /\ UNCHANGED <<orig, text, held, last, ops>>

\* parse_value on a text that is no array and no object
parse_value_leaf(ubInt) ==
    /\ pc = "call"
    /\ ValueKind(mem, call.value) \notin {"array", "object"}
    /\ P' = parse_value(mem, P, call.item, call.value, ubInt)
    /\ call' = NoCall
    /\ pc' = "ret"
    /\ ub' = (ub \/ Undefined(mem, P'))
    /\ UNCHANGED <<mem, buffer_length, stack, c, tree, orig, text, held, last, ops>>

\* the values (int)n may take for the number at value
CastOutcomes(m, value) ==
    IF ValueKind(m, value) = "number" /\ ~InIntRange(NumberValue(NumberScan(m, value)))
    THEN {INT_MIN, 0, INT_MAX}
    ELSE {0}

\* parse_value's call of parse_array, up to parse_array's first call of
\* parse_value (or its return)
parse_array_begin ==
    /\ pc = "call"
    /\ ValueKind(mem, call.value) = "array"
    /\ LET item == call.item
           v == skip(mem, call.value + 1)
           P0 == Touch([LitReads(mem, P, call.value, LitTrue) EXCEPT
                           !.h.nodes[item].type = cJSON_Array,
                           !.maxDepth = Max(@, Len(stack) + 1)], v)
           new == cJSON_New_Item(P0.h)
       IN  IF At(mem, v) = Ch_RBracket
           THEN /\ P' = [P0 EXCEPT !.ret = v + 1]
                /\ call' = NoCall /\ pc' = "ret" /\ UNCHANGED stack
           ELSE IF new.node = 0
           THEN /\ P' = [P0 EXCEPT !.h = new.h, !.ret = 0]
                /\ call' = NoCall /\ pc' = "ret" /\ UNCHANGED stack
           ELSE /\ P' = [P0 EXCEPT !.h = [new.h EXCEPT !.nodes[item].child = new.node]]
                /\ stack' = Append(stack, [fn |-> "parse_array", child |-> new.node])
                /\ call' = [item |-> new.node, value |-> skip(mem, v)]
                /\ pc' = "call"
    /\ ub' = (ub \/ Undefined(mem, P'))
    /\ UNCHANGED <<mem, buffer_length, c, tree, orig, text, held, last, ops>>

\* parse_value returns into parse_array: the rest of parse_array up to its
\* next call of parse_value (or its return)
parse_array_resume ==
    /\ pc = "ret"
    /\ stack # <<>>
    /\ Top.fn = "parse_array"
    /\ LET Ps == SkipRet(mem, P)
           value == Ps.ret
           new == cJSON_New_Item(Ps.h)
           v == skip(mem, value + 1)
       IN  IF value = 0
           THEN P' = Ps /\ stack' = Pop /\ call' = NoCall /\ pc' = "ret"
           ELSE IF At(mem, value) = Ch_Comma
           THEN IF new.node = 0
                THEN /\ P' = [Ps EXCEPT !.h = new.h, !.ret = 0]
                     /\ stack' = Pop /\ call' = NoCall /\ pc' = "ret"
                ELSE /\ P' = Touch([Ps EXCEPT !.h = LinkAfter(new.h, Top.child, new.node)], v)
                     /\ stack' = [stack EXCEPT ![Len(stack)].child = new.node]
                     /\ call' = [item |-> new.node, value |-> v]
                     /\ pc' = "call"
           ELSE IF At(mem, value) = Ch_RBracket
           THEN /\ P' = [Ps EXCEPT !.ret = value + 1]
                /\ stack' = Pop /\ call' = NoCall /\ pc' = "ret"
           ELSE /\ P' = [Ps EXCEPT !.ep = value, !.ret = 0]
                /\ stack' = Pop /\ call' = NoCall /\ pc' = "ret"
    /\ ub' = (ub \/ Undefined(mem, P'))
    /\ UNCHANGED <<mem, buffer_length, c, tree, orig, text, held, last, ops>>

\* parse_value's call of parse_object, up to parse_object's first call of
\* parse_value (or its return)
parse_object_begin ==
    /\ pc = "call"
    /\ ValueKind(mem, call.value) = "object"
    /\ LET item == call.item
           v == skip(mem, call.value + 1)
           P0 == Touch([LitReads(mem, P, call.value, LitTrue) EXCEPT
                           !.h.nodes[item].type = cJSON_Object,
                           !.maxDepth = Max(@, Len(stack) + 1)], v)
           new == cJSON_New_Item(P0.h)
           P1 == [P0 EXCEPT !.h = [new.h EXCEPT !.nodes[item].child = new.node]]
           K == ParseKey(mem, P1, new.node, skip(mem, v))
           vv == skip(mem, K.ret + 1)
       IN  IF At(mem, v) = Ch_RBrace
           THEN /\ P' = [P0 EXCEPT !.ret = v + 1]
                /\ call' = NoCall /\ pc' = "ret" /\ UNCHANGED stack
           ELSE IF new.node = 0
           THEN /\ P' = [P0 EXCEPT !.h = new.h, !.ret = 0]
                /\ call' = NoCall /\ pc' = "ret" /\ UNCHANGED stack
           ELSE IF K.ret = 0
           THEN /\ P' = K
                /\ call' = NoCall /\ pc' = "ret" /\ UNCHANGED stack
           ELSE /\ P' = Touch(K, vv)
                /\ stack' = Append(stack, [fn |-> "parse_object", child |-> new.node])
                /\ call' = [item |-> new.node, value |-> vv]
                /\ pc' = "call"
    /\ ub' = (ub \/ Undefined(mem, P'))
    /\ UNCHANGED <<mem, buffer_length, c, tree, orig, text, held, last, ops>>

\* parse_value returns into parse_object: the rest of parse_object up to its
\* next call of parse_value (or its return)
parse_object_resume ==
    /\ pc = "ret"
    /\ stack # <<>>
    /\ Top.fn = "parse_object"
    /\ LET Ps == SkipRet(mem, P)
           value == Ps.ret
           new == cJSON_New_Item(Ps.h)
           P1 == [Ps EXCEPT !.h = LinkAfter(new.h, Top.child, new.node)]
           K == ParseKey(mem, P1, new.node, skip(mem, value + 1))
           vv == skip(mem, K.ret + 1)
       IN  IF value = 0
           THEN P' = Ps /\ stack' = Pop /\ call' = NoCall /\ pc' = "ret"
           ELSE IF At(mem, value) = Ch_Comma
           THEN IF new.node = 0
                THEN /\ P' = [Ps EXCEPT !.h = new.h, !.ret = 0]
                     /\ stack' = Pop /\ call' = NoCall /\ pc' = "ret"
                ELSE IF K.ret = 0
                THEN /\ P' = K
                     /\ stack' = Pop /\ call' = NoCall /\ pc' = "ret"
                ELSE /\ P' = Touch(K, vv)
                     /\ stack' = [stack EXCEPT ![Len(stack)].child = new.node]
                     /\ call' = [item |-> new.node, value |-> vv]
                     /\ pc' = "call"
           ELSE IF At(mem, value) = Ch_RBrace
           THEN /\ P' = [Ps EXCEPT !.ret = value + 1]
                /\ stack' = Pop /\ call' = NoCall /\ pc' = "ret"
           ELSE /\ P' = [Ps EXCEPT !.ep = value, !.ret = 0]
                /\ stack' = Pop /\ call' = NoCall /\ pc' = "ret"
    /\ ub' = (ub \/ Undefined(mem, P'))
    /\ UNCHANGED <<mem, buffer_length, c, tree, orig, text, held, last, ops>>

\* parse_value returns into cJSON_ParseWithLength, which returns
ParseFinish ==
    /\ pc = "ret"
    /\ stack = <<>>
    /\ IF P.ret = 0
       THEN P' = [P EXCEPT !.h = cJSON_Delete(P.h, c)] /\ tree' = 0
       ELSE P' = P /\ tree' = c
    /\ pc' = "done"
    /\ UNCHANGED <<mem, buffer_length, stack, call, c, orig, text, held, last, ops, ub>>

(***************************************************************************)
(* The calls on a parsed tree.                                             *)
(***************************************************************************)
\* the nodes of the tree under n
RECURSIVE Subtree(_, _)
Subtree(h, n) ==
    LET kids == Children(h, n)
    IN  {n} \cup UNION {Subtree(h, kids[i]) : i \in 1..Len(kids)}

\* cJSON_free was given a string the caller owns
BorrowedFreed(h) ==
    \E s \in 1..Len(h.strs) : h.strs[s].borrowed /\ h.sfree[s] > 0

Editable ==
    /\ pc = "done"
    /\ tree # 0
    /\ orig = 0
    /\ Len(P.h.nodes) <= MaxTreeNodes

\* item = cJSON_DetachItemFromArray(array, which)
Detach(array, which) ==
    /\ Editable
    /\ held = 0
    /\ ops < MaxOps
    /\ LET r == cJSON_DetachItemFromArray(P.h, array, which)
       IN  /\ P' = [P EXCEPT !.h = r.h]
           /\ held' = r.c
           /\ last' = [op |-> "detach", array |-> array, which |-> which,
                       before |-> P.h]
    /\ ops' = ops + 1
    /\ UNCHANGED <<mem, buffer_length, stack, call, c, pc, tree, orig, text, ub>>

\* cJSON_DeleteItemFromArray(array, which)
DeleteItem(array, which) ==
    /\ Editable
    /\ ops < MaxOps
    /\ P' = [P EXCEPT !.h = cJSON_DeleteItemFromArray(P.h, array, which)]
    /\ last' = [op |-> "delete_item", array |-> array, which |-> which,
                before |-> P.h]
    /\ ops' = ops + 1
    /\ ub' = (ub \/ BorrowedFreed(P'.h))
    /\ UNCHANGED <<mem, buffer_length, stack, call, c, pc, tree, orig, text, held>>

\* cJSON_Delete(node): the tree is not used after it
Delete(node) ==
    /\ Editable
    /\ P' = [P EXCEPT !.h = cJSON_Delete(P.h, node)]
    /\ last' = [op |-> "delete", node |-> node, before |-> P.h]
    /\ pc' = "deleted"
    /\ ub' = (ub \/ BorrowedFreed(P'.h))
    /\ UNCHANGED <<mem, buffer_length, stack, call, c, tree, orig, text, held, ops>>

\* the numbers under n lie in the range of int
NumbersInRange(h, n) ==
    \A k \in Subtree(h, n) :
        Kind(h.nodes[k].type) = cJSON_Number => InIntRange(h.nodes[k].valuedouble)

\* text = cJSON_Print(tree) or cJSON_PrintUnformatted(tree)
PrintTree(formatted) ==
    /\ Editable
    /\ LET r == IF formatted THEN cJSON_Print(P.h, tree)
                ELSE cJSON_PrintUnformatted(P.h, tree)
       IN  /\ text' = IF r.null THEN <<>> ELSE Append(r.text, 0)
           /\ ub' = (ub \/ r.ub)
    /\ orig' = tree
    /\ last' = [op |-> "print", formatted |-> formatted]
    /\ pc' = "printed"
    /\ UNCHANGED <<mem, buffer_length, P, stack, call, c, tree, held, ops>>

\* cJSON_Parse(text) of the printed text: cJSON_ParseWithLength(text, strlen(text)).
\* The text of a tree with a number beyond the range of int is printed but not
\* parsed again: its digits are more than the model's integers hold.
Reparse ==
    /\ pc = "printed"
    /\ text # <<>>
    /\ NumbersInRange(P.h, orig)
    /\ StartParse(text, Len(text) - 1, 0)
    /\ UNCHANGED <<orig, text, held, last, ops>>

\* Once undefined behaviour has happened the run may go on as if the memory
\* written or read were the program's, or stop.
Crash ==
    /\ ub
    /\ pc \notin {"crashed", "deleted"}
    /\ pc' = "crashed"
    /\ UNCHANGED <<mem, buffer_length, P, stack, call, c, tree, orig, text, held,
                   last, ops, ub>>

\* the nodes a call on the tree may be given
Handles ==
    IF Editable
    THEN Subtree(P.h, tree) \cup (IF held = 0 THEN {} ELSE Subtree(P.h, held))
    ELSE {}

\* the indexes a call is given for the container a: those of its children, one
\* below and two above
Indexes(a) == -1..(cJSON_GetArraySize(P.h, a) + 1)

Next ==
    \/ \E n \in BufferLengths(TextOf(mem)), f \in 0..MaxFailAt : ParseText(n, f)
    \/ \E u \in CastOutcomes(mem, call.value) : parse_value_leaf(u)
    \/ parse_array_begin
    \/ parse_array_resume
    \/ parse_object_begin
    \/ parse_object_resume
    \/ ParseFinish
    \/ \E a \in Handles : \E w \in Indexes(a) : Detach(a, w)
    \/ \E a \in Handles : \E w \in Indexes(a) : DeleteItem(a, w)
    \/ \E n \in Handles : Delete(n)
    \/ \E f \in BOOLEAN : PrintTree(f)
    \/ Reparse
    \/ Crash

Spec == Init /\ [][Next]_vars

\* the same program, also given a text nested deeper than the nesting limit
InitNest == InitWith(Texts \cup {Deep(CJSON_NESTING_LIMIT + 1)})

SpecNest == InitNest /\ [][Next]_vars

(***************************************************************************)
(* A container built by the caller: cJSON_CreateArray or                   *)
(* cJSON_CreateObject, then items added to it, detached and deleted from   *)
(* it, and the container printed into a buffer of the caller.              *)
(***************************************************************************)
\* the payloads of the strings created (one a control byte), and the keys of
\* the members added
Payloads == {Bytes(<<"SOH">>)}
Keys == {Bytes(<<"a">>)}

\* the items an add may be given: a new Null, a new String, or the item the
\* last detach returned (prev and next cleared)
ItemsToAdd ==
    (IF Len(P.h.nodes) <= MaxItems
     THEN {cJSON_CreateNull(P.h)} \cup {cJSON_CreateString(P.h, s) : s \in Payloads}
     ELSE {})
    \cup (IF held # 0 /\ P.h.nfree[held] = 0
          THEN {[h |-> P.h, node |-> held]} ELSE {})

\* what an add leaves besides the heap
Added(it) ==
    /\ held' = (IF it.node = held THEN 0 ELSE held)
    /\ last' = [op |-> "add", array |-> tree, item |-> it.node, before |-> P.h]
    /\ UNCHANGED <<mem, buffer_length, stack, call, c, pc, tree, orig, text, ops, ub>>

\* cJSON_AddItemToArray(tree, item)
AddToArray(it) ==
    /\ Editable
    /\ Kind(P.h.nodes[tree].type) = cJSON_Array
    /\ P' = [P EXCEPT !.h = cJSON_AddItemToArray(it.h, tree, it.node)]
    /\ Added(it)

\* cJSON_AddItemToObject(tree, key, item)
AddToObject(key, it) ==
    /\ Editable
    /\ Kind(P.h.nodes[tree].type) = cJSON_Object
    /\ P' = [P EXCEPT !.h = cJSON_AddItemToObject(it.h, tree, key, it.node)]
    /\ Added(it)

\* cJSON_AddItemToObjectCS(tree, key, item), key a constant of the caller
AddToObjectCS(key, it) ==
    /\ Editable
    /\ Kind(P.h.nodes[tree].type) = cJSON_Object
    /\ LET k == CallerString(it.h, key)
       IN  P' = [P EXCEPT !.h = cJSON_AddItemToObjectCS(k.h, tree, k.str, it.node)]
    /\ Added(it)

\* the lengths a buffer is given with for a text of n characters: none, one
\* too few for the text and its terminator, just enough, and one more
BufferSizes(n) == {0, n, n + 1, n + 2}

\* strlen of the text the print of the tree returns
PrintedLen(format) ==
    Len((IF format THEN cJSON_Print(P.h, tree)
         ELSE cJSON_PrintUnformatted(P.h, tree)).text)

\* cJSON_PrintPreallocated(tree, buffer, length, format), buffer holding
\* length bytes 0xFF
PrintInto(length, format) ==
    /\ Editable
    /\ LET buffer == [i \in 1..length |-> 255]
           r == cJSON_PrintPreallocated(P.h, tree, buffer, length, format)
       IN  /\ last' = [op |-> "print_into", length |-> length, format |-> format,
                       ret |-> r.ret, buffer |-> r.buffer]
           /\ ub' = (ub \/ r.ub)
    /\ pc' = "printed"
    /\ UNCHANGED <<mem, buffer_length, P, stack, call, c, tree, orig, text, held, ops>>

\* the state after cJSON_CreateArray() or cJSON_CreateObject()
InitBuild ==
    /\ mem = MemOf(<<>>)
    /\ buffer_length = 0
    /\ P \in {ParserStart(cJSON_CreateArray(EmptyHeap).h, 0),
              ParserStart(cJSON_CreateObject(EmptyHeap).h, 0)}
    /\ stack = <<>>
    /\ call = NoCall
    /\ c = 0
    /\ pc = "done"
    /\ tree = 1
    /\ orig = 0
    /\ text = <<>>
    /\ held = 0
    /\ last = [op |-> "create"]
    /\ ops = 0
    /\ ub = FALSE

NextBuild ==
    \/ \E it \in ItemsToAdd : AddToArray(it)
    \/ \E it \in ItemsToAdd : \E key \in Keys : AddToObject(key, it)
    \/ \E it \in ItemsToAdd : \E key \in Keys : AddToObjectCS(key, it)
    \/ \E a \in Handles : \E w \in Indexes(a) : Detach(a, w)
    \/ \E a \in Handles : \E w \in Indexes(a) : DeleteItem(a, w)
    \/ \E n \in Handles : Delete(n)
    \/ \E f \in BOOLEAN : \E n \in BufferSizes(PrintedLen(f)) : PrintInto(n, f)
    \/ Crash

SpecBuild == InitBuild /\ [][NextBuild]_vars

(***************************************************************************)
(* put.c: main loads the configuration file, looks its settings up and     *)
(* applies the overrides of the environment and of the command line.       *)
(***************************************************************************)
\* the text of a member and of an object
Member(key, val) == Quoted(key) \o <<Ch_Colon>> \o val
ObjectText(members) ==
    <<Ch_LBrace>> \o Join(members, <<Ch_Comma>>, 1) \o <<Ch_RBrace>>

\* the servers member of a configuration with the one server "a"
ServersText(server) ==
    Member(KeyServers, ObjectText(<<Member(Bytes(<<"a">>), server)>>))

\* a configuration with every setting, each a string
FullConfig ==
    ObjectText(<<Member(KeyDefaultServer, Quoted(Bytes(<<"c">>))),
                 Member(KeyDefaultToken, Quoted(Bytes(<<"d">>))),
                 ServersText(ObjectText(
                     <<Member(KeyUrl, Quoted(Bytes(<<"e">>))),
                       Member(KeyToken, Quoted(Bytes(<<"f">>)))>>))>>)

\* the configuration files: empty, cut short, with every setting, with
\* settings of other types, with settings missing, with a setting twice,
\* with a server or the servers of another type, with a root that is no
\* object, and two objects whose keys differ in case or repeat
ConfigTexts ==
    { <<>>,
      SubSeq(FullConfig, 1, 20),
      FullConfig,
      ObjectText(<<Member(KeyDefaultServer, Bytes(<<"1">>)),
                   Member(KeyDefaultToken, LitNull),
                   ServersText(ObjectText(
                       <<Member(KeyUrl, Bytes(<<"[", "]">>)),
                         Member(KeyToken, Bytes(<<"1">>))>>))>>),
      ObjectText(<<Member(KeyDefaultToken, Quoted(Bytes(<<"d">>))),
                   ServersText(ObjectText(
                       <<Member(KeyUrl, Quoted(Bytes(<<"e">>)))>>))>>),
      ObjectText(<<Member(KeyDefaultServer, Quoted(Bytes(<<"c">>))),
                   Member(KeyDefaultServer, Quoted(Bytes(<<"e">>)))>>),
      ObjectText(<<Member(KeyDefaultServer, Quoted(Bytes(<<"c">>))),
                   ServersText(Quoted(Bytes(<<"x">>)))>>),
      ObjectText(<<Member(KeyServers, Bytes(<<"[", "1", "]">>))>>),
      Bytes(<<"[", "1", "]">>),
      Bytes(<<"{", "\"", "a", "\"", ":", "1", ",", "\"", "a", "\"", ":", "2", "}">>),
      Bytes(<<"{", "\"", "A", "\"", ":", "1", ",", "\"", "a", "\"", ":", "2", ",",
              "\"", "B", "\"", ":", "3", "}">>) }

\* --server, PPB_URL, PPB_TOKEN, --url and --token: each given or not
MainArgs ==
    [server_name : {<<>>, <<Bytes(<<"a">>)>>, <<Bytes(<<"b">>)>>},
     env_url : {<<>>, <<Bytes(<<"u">>)>>},
     env_token : {<<>>, <<Bytes(<<"t">>)>>},
     cli_url : {<<>>, <<Bytes(<<"x">>)>>},
     cli_token : {<<>>, <<Bytes(<<"s">>)>>}]

\* main from the return of cJSON_ParseWithLength in parse_config on, or with
\* a configuration file that is missing or not readable, up to the settings
\* the upload is made with.  A lookup that is undefined stops the program,
\* or goes on as if nothing was found.
Main(args) ==
    /\ pc = "idle" \/ (pc = "done" /\ orig = 0 /\ last = NoLast)
    /\ LET root == IF pc = "idle" THEN 0 ELSE tree
           r == parse_config(P.h, root, DefaultConfig, args.server_name)
       IN  /\ \E stops \in (IF r.ub THEN BOOLEAN ELSE {FALSE}) :
                  /\ pc' = (IF stops THEN "crashed" ELSE "deleted")
                  /\ P' = (IF stops THEN P
                           ELSE [P EXCEPT !.h = cJSON_Delete(P.h, root)])
           /\ last' = [op |-> "main", args |-> args, root |-> root,
                       before |-> P.h, cfg |-> Overrides(r.cfg, args)]
           /\ ub' = (ub \/ r.ub)
    /\ UNCHANGED <<mem, buffer_length, stack, call, c, tree, orig, text, held, ops>>

\* the keys looked up
LookupKeys == {Bytes(<<"a">>), Bytes(<<"A">>), Bytes(<<"b">>), KeyUrl}

\* cJSON_GetObjectItemCaseSensitive(object, string) when exact, else
\* cJSON_GetObjectItem(object, string)
GetItem(object, string, exact) ==
    /\ Editable
    /\ cJSON_IsObject(P.h, object)
    /\ LET r == IF exact
                THEN cJSON_GetObjectItemCaseSensitive(P.h, object, string)
                ELSE cJSON_GetObjectItem(P.h, object, string)
       IN  /\ last' = [op |-> "get", object |-> object, string |-> string,
                       exact |-> exact, found |-> r.c, before |-> P.h]
           /\ ub' = (ub \/ r.ub)
    /\ UNCHANGED <<mem, buffer_length, P, stack, call, c, pc, tree, orig, text,
                   held, ops>>

InitApp == InitWith(ConfigTexts)

NextApp ==
    \/ \E f \in 0..MaxFailAt : ParseText(Len(mem) - 1, f)
    \/ \E u \in CastOutcomes(mem, call.value) : parse_value_leaf(u)
    \/ parse_array_begin
    \/ parse_array_resume
    \/ parse_object_begin
    \/ parse_object_resume
    \/ ParseFinish
    \/ \E o \in Handles : \E k \in LookupKeys : \E x \in BOOLEAN : GetItem(o, k, x)
    \/ \E a \in MainArgs : Main(a)

SpecApp == InitApp /\ [][NextApp]_vars

(***************************************************************************)
(* The claims.                                                             *)
(***************************************************************************)
\* cJSON_ParseWithLength has returned from the given text and nothing was
\* called since
Parsed == pc = "done" /\ orig = 0 /\ last = NoLast

\* C1: the calls of parse_array and parse_object in progress are never more
\* than the nesting limit, and a parse that nested deeper than the limit
\* returns no tree.
C1_NestingLimitEnforced ==
    /\ P.maxDepth <= CJSON_NESTING_LIMIT
    /\ (Parsed /\ P.maxDepth > CJSON_NESTING_LIMIT => tree = 0)

\* C2: given a declared length n > 0, the parser reads bytes at offsets below
\* n only (indexes up to n).
C2_ReadsBelowLength == buffer_length > 0 => P.reach <= buffer_length

\* C3: when cJSON_ParseWithLength fails it returns no tree, and every node and
\* every string buffer allocated during the call has been freed exactly once.
C3_FailedParseFreesAll ==
    Parsed /\ tree = 0 =>
        /\ \A n \in 1..Len(P.h.nodes) : P.h.nfree[n] = 1
        /\ \A s \in 1..Len(P.h.strs) : P.h.sfree[s] = 1

\* a failed parse that had allocated nodes and a string buffer
C3_Witness ==
    /\ Parsed
    /\ tree = 0
    /\ P.h.failAt = 0
    /\ Len(P.h.nodes) >= 2
    /\ Len(P.h.strs) >= 1

\* the value of the four hex digits at i, -1 when they are not four hex digits
HexAt(m, i) ==
    IF \E k \in 0..3 : HexVal(At(m, i + k)) < 0 THEN -1
    ELSE 4096 * HexVal(At(m, i)) + 256 * HexVal(At(m, i + 1))
         + 16 * HexVal(At(m, i + 2)) + HexVal(At(m, i + 3))

IsLowSurrogate(v) == v >= 56320 /\ v <= 57343
IsHighSurrogate(v) == v >= 55296 /\ v <= 56319

\* Whether the string literal whose body goes on at i holds a \u escape of a
\* low surrogate that follows no high one, or one of a high surrogate that no
\* \u escape of a low one follows; high: a high surrogate ended just before i.
RECURSIVE SurrogateFault(_, _, _)
SurrogateFault(m, i, high) ==
    LET ch == At(m, i)
        isU == ch = Ch_Backslash /\ At(m, i + 1) = Ch_u /\ HexAt(m, i + 2) >= 0
        v == HexAt(m, i + 2)
    IN  IF high /\ ~(isU /\ IsLowSurrogate(v)) THEN TRUE
        ELSE IF ch = Ch_Quote \/ ch = 0 THEN FALSE
        ELSE IF isU /\ IsLowSurrogate(v)
        THEN IF high THEN SurrogateFault(m, i + 6, FALSE) ELSE TRUE
        ELSE IF isU /\ IsHighSurrogate(v) THEN SurrogateFault(m, i + 6, TRUE)
        ELSE IF isU THEN SurrogateFault(m, i + 6, FALSE)
        ELSE IF ch = Ch_Backslash THEN SurrogateFault(m, i + 2, FALSE)
        ELSE SurrogateFault(m, i + 1, FALSE)

\* C4: a text that begins with a string literal holding a lone low surrogate,
\* or a high surrogate not followed at once by a low one, yields no tree.
C4_SurrogatesRejected ==
    (/\ Parsed
     /\ buffer_length > 0
     /\ At(mem, 1) = Ch_Quote
     /\ SurrogateFault(mem, 2, FALSE)) => tree = 0

\* C5: parse_string writes into a buffer, the terminator included, no more
\* bytes than the len + 1 it allocated.
C5_WritesWithinAllocation ==
    \A s \in 1..Len(P.h.strs) : Len(P.h.strs[s].data) <= P.h.strs[s].cap

\* the UTF-8 encoding of the code point u
RefUtf8(u) ==
    IF u <= 127 THEN <<u>>
    ELSE IF u <= 2047 THEN <<192 + (u \div 64), 128 + (u % 64)>>
    ELSE IF u <= 65535
    THEN <<224 + (u \div 4096), 128 + ((u \div 64) % 64), 128 + (u % 64)>>
    ELSE <<240 + (u \div 262144), 128 + ((u \div 4096) % 64),
           128 + ((u \div 64) % 64), 128 + (u % 64)>>

\* the byte the escape \e stands for
RefUnescape(e) ==
    IF e = Ch_b THEN 8 ELSE IF e = Ch_f THEN 12 ELSE IF e = Ch_n THEN 10
    ELSE IF e = Ch_r THEN 13 ELSE IF e = Ch_t THEN 9 ELSE e

\* what the body of a well-formed string literal decodes to, from i on
RECURSIVE RefDecode(_, _)
RefDecode(m, i) ==
    LET ch == At(m, i)
        e == At(m, i + 1)
        v == HexAt(m, i + 2)
        w == HexAt(m, i + 8)
    IN  IF ch = Ch_Quote \/ ch = 0 THEN <<>>
        ELSE IF ch # Ch_Backslash THEN <<ch>> \o RefDecode(m, i + 1)
        ELSE IF e # Ch_u THEN <<RefUnescape(e)>> \o RefDecode(m, i + 2)
        ELSE IF IsHighSurrogate(v)
        THEN RefUtf8(65536 + (v - 55296) * 1024 + (w - 56320))
             \o RefDecode(m, i + 12)
        ELSE RefUtf8(v) \o RefDecode(m, i + 6)

\* the index of the quote that closes the literal whose body goes on at i
\* (of the text's end when none does)
RECURSIVE ClosingQuote(_, _)
ClosingQuote(m, i) ==
    IF At(m, i) = Ch_Quote \/ At(m, i) = 0 THEN i
    ELSE IF At(m, i) = Ch_Backslash THEN ClosingQuote(m, i + 2)
    ELSE ClosingQuote(m, i + 1)

\* the text is one well-formed string literal
WellFormedLiteral(m) ==
    /\ At(m, 1) = Ch_Quote
    /\ ClosingQuote(m, 2) = Len(m) - 1
    /\ ~SurrogateFault(m, 2, FALSE)

\* C6: a well-formed string literal is decoded to the UTF-8 encoding of its
\* code points in order with its other characters, none skipped, and the
\* position returned is just past its closing quote.
C6_EscapesDecoded ==
    (/\ Parsed
     /\ buffer_length = Len(mem) - 1
     /\ P.h.failAt = 0
     /\ WellFormedLiteral(mem)) =>
        /\ tree # 0
        /\ Kind(P.h.nodes[tree].type) = cJSON_String
        /\ P.h.strs[P.h.nodes[tree].valuestring].data = Append(RefDecode(mem, 2), 0)
        /\ P.ret = Len(mem)

\* the numbers under n are integers in the range of int
IntegersInRange(h, n) ==
    \A k \in Subtree(h, n) :
        Kind(h.nodes[k].type) = cJSON_Number =>
            h.nodes[k].valuedouble.e >= 0 /\ InIntRange(h.nodes[k].valuedouble)

\* C7: the text cJSON_Print or cJSON_PrintUnformatted makes of a tree whose
\* numbers are integers in range parses to a tree deep-equal to it.
C7_PrintParseRoundTrip ==
    (pc = "done" /\ orig # 0 /\ IntegersInRange(P.h, orig)) =>
        tree # 0 /\ TreeOf(P.h, tree) = TreeOf(P.h, orig)

\* the nodes cJSON_Delete(node) is to free: node, the nodes after it along
\* next, and the nodes under them
Doomed(h, node) ==
    UNION {Subtree(h, Chain(h, node)[i]) : i \in 1..Len(Chain(h, node))}

\* the string buffers the nodes of S own
OwnedStrs(h, S) ==
    ({h.nodes[n].valuestring : n \in S} \cup {h.nodes[n].string : n \in S}) \ {0}

\* C8: cJSON_Delete(node) frees node, the nodes under it and their strings,
\* and every node after node along next with the nodes under it: each
\* exactly once.
C8_DeleteCascades ==
    last.op = "delete" =>
        /\ \A n \in Doomed(last.before, last.node) : P.h.nfree[n] = 1
        /\ \A s \in OwnedStrs(last.before, Doomed(last.before, last.node)) :
               P.h.sfree[s] = 1

\* cJSON_Delete was called on the first of three linked siblings
C8_Witness ==
    /\ last.op = "delete"
    /\ last.before.nodes[last.node].prev = 0
    /\ Len(Chain(last.before, last.node)) = 3

\* s without its k-th element
Without(s, k) == SubSeq(s, 1, k - 1) \o SubSeq(s, k + 1, Len(s))

\* the list kids is linked by next and prev
Linked(h, kids) ==
    \A i \in 1..Len(kids) :
        /\ h.nodes[kids[i]].next = (IF i < Len(kids) THEN kids[i + 1] ELSE 0)
        /\ h.nodes[kids[i]].prev = (IF i > 1 THEN kids[i - 1] ELSE 0)

\* C9: for 0 <= index < size, cJSON_DeleteItemFromArray(container, index)
\* frees the child at index and the nodes under it, each once, and nothing
\* else; the other children stay in the container in their order, linked by
\* prev and next, and the size is one less.
C9_DeleteItemFreesOne ==
    (/\ last.op = "delete_item"
     /\ last.which >= 0
     /\ last.which < cJSON_GetArraySize(last.before, last.array)) =>
        LET before == last.before
            kids == Children(before, last.array)
            gone == Subtree(before, kids[last.which + 1])
        IN  /\ \A n \in 1..Len(P.h.nodes) :
                   P.h.nfree[n] = before.nfree[n] + (IF n \in gone THEN 1 ELSE 0)
            /\ \A s \in 1..Len(P.h.strs) :
                   P.h.sfree[s] = before.sfree[s]
                       + (IF s \in OwnedStrs(before, gone) THEN 1 ELSE 0)
            /\ Children(P.h, last.array) = Without(kids, last.which + 1)
            /\ Linked(P.h, Children(P.h, last.array))
            /\ cJSON_GetArraySize(P.h, last.array) = Len(kids) - 1

\* cJSON_DeleteItemFromArray deleted the first of three children
C9_Witness ==
    /\ last.op = "delete_item"
    /\ last.which = 0
    /\ cJSON_GetArraySize(last.before, last.array) = 3

\* C10: cJSON_DetachItemFromArray(container, index) returns the child at
\* index, its prev and next cleared and not freed, when 0 <= index < size; for
\* any other index it returns nothing and leaves the list of children as it
\* was.
C10_DetachInRangeOnly ==
    last.op = "detach" =>
        LET kids == Children(last.before, last.array)
        IN  IF last.which >= 0 /\ last.which < Len(kids)
            THEN /\ held = kids[last.which + 1]
                 /\ P.h.nodes[held].prev = 0
                 /\ P.h.nodes[held].next = 0
                 /\ P.h.nfree[held] = 0
            ELSE /\ held = 0
                 /\ Children(P.h, last.array) = kids

\* type & cJSON_StringIsConst
HasStringIsConst(type) == (type \div cJSON_StringIsConst) % 2 = 1

\* the nodes the last call freed
FreedByLast == {n \in 1..Len(last.before.nodes) : P.h.nfree[n] > last.before.nfree[n]}

\* C11: a member added with cJSON_AddItemToObjectCS keeps the caller's key
\* and is flagged StringIsConst; no delete of it, of an item of its container
\* or of its parent ever gives that key to the free hook, and the key of a
\* deleted member that cJSON_AddItemToObject duplicated is freed exactly once.
C11_BorrowedKeyNotFreed ==
    /\ \A n \in 1..Len(P.h.nodes) :
           (/\ P.h.nodes[n].string # 0
            /\ P.h.strs[P.h.nodes[n].string].borrowed) =>
               HasStringIsConst(P.h.nodes[n].type)
    /\ \A s \in 1..Len(P.h.strs) : P.h.strs[s].borrowed => P.h.sfree[s] = 0
    /\ last.op \in {"delete", "delete_item"} =>
           \A n \in FreedByLast :
               (/\ P.h.nodes[n].string # 0
                /\ ~P.h.strs[P.h.nodes[n].string].borrowed) =>
                   P.h.sfree[P.h.nodes[n].string] = 1

\* C12: when cJSON_ParseWithLength fails on a non-empty input given whole (no
\* allocation having failed), the error position ep is set, lies within the
\* input or at its end, and, when the character at the value position begins
\* no value, is that character's.
C12_ErrorPositionSet ==
    (/\ Parsed
     /\ buffer_length > 0
     /\ buffer_length = Len(mem) - 1
     /\ P.h.failAt = 0
     /\ tree = 0) =>
        /\ P.ep # 0
        /\ P.ep <= buffer_length + 1
        /\ (ValueKind(mem, skip(mem, 1)) = "none" => P.ep = skip(mem, 1))

\* the text the last cJSON_PrintPreallocated call had to write
Serialized ==
    (IF last.format THEN cJSON_Print(P.h, tree)
     ELSE cJSON_PrintUnformatted(P.h, tree)).text

\* C13: when the serialized text and its terminator do not fit in length
\* bytes, cJSON_PrintPreallocated returns failure and the caller's buffer is
\* as it was; when it returns success the buffer holds the text and its
\* terminator, its other bytes are as they were, and nothing was written at
\* an offset of length or more.
C13_PrintIntoFitsOrFails ==
    last.op = "print_into" =>
        LET initial == [i \in 1..last.length |-> 255]
            n == Len(Serialized)
        IN  /\ n + 1 > last.length =>
                   last.ret = 0 /\ last.buffer = initial
            /\ last.ret = 1 =>
                   /\ Len(last.buffer) = last.length
                   /\ SubSeq(last.buffer, 1, n + 1) = Append(Serialized, 0)
                   /\ SubSeq(last.buffer, n + 2, last.length)
                          = SubSeq(initial, n + 2, last.length)

\* a container with three items was printed into a buffer that has room for
\* the text but not for its terminator
C13_Witness ==
    /\ last.op = "print_into"
    /\ cJSON_GetArraySize(P.h, tree) = 3
    /\ last.length = Len(Serialized)
    /\ last.ret = 0

\* the bytes of s with the letters A to Z made small
FoldCase(s) == [i \in 1..Len(s) |-> IF s[i] >= 65 /\ s[i] <= 90 THEN s[i] + 32 ELSE s[i]]

\* the key of the member n
KeyOf(h, n) == CStr(h.strs[h.nodes[n].string].data)

\* the first member of object, in forward order, whose key is string (exactly,
\* or ignoring the case of ASCII letters); 0 when there is none
FirstMember(h, object, string, exact) ==
    LET kids == Children(h, object)
        hits == {i \in 1..Len(kids) :
                    /\ h.nodes[kids[i]].string # 0
                    /\ IF exact THEN KeyOf(h, kids[i]) = string
                       ELSE FoldCase(KeyOf(h, kids[i])) = FoldCase(string)}
    IN  IF hits = {} THEN 0
        ELSE kids[CHOOSE i \in hits : \A j \in hits : i <= j]

\* C14: cJSON_GetObjectItemCaseSensitive returns the first member in forward
\* order whose key equals the requested key exactly, cJSON_GetObjectItem the
\* first whose key equals it ignoring ASCII case, each nothing when no member
\* matches, and the tree is as it was.
C14_LookupFirstMatch ==
    last.op = "get" =>
        /\ last.found = FirstMember(last.before, last.object, last.string, last.exact)
        /\ P.h = last.before

\* the exact lookup of "a" in an object with two members "a" found the first
C14_Witness ==
    /\ last.op = "get"
    /\ last.exact
    /\ last.string = Bytes(<<"a">>)
    /\ Len(Children(P.h, last.object)) = 2
    /\ \A n \in {1, 2} : KeyOf(P.h, Children(P.h, last.object)[n]) = Bytes(<<"a">>)
    /\ last.found = Children(P.h, last.object)[1]
    /\ P.h.nodes[last.found].valueint = 1

\* the string value of the member key of object, as <<value>>; <<>> when
\* object is no object, has no such member, or the member is no string
SettingOf(h, object, key) ==
    LET n == IF object # 0 /\ Kind(h.nodes[object].type) = cJSON_Object
             THEN FirstMember(h, object, key, TRUE) ELSE 0
    IN  IF n # 0 /\ Kind(h.nodes[n].type) = cJSON_String
        THEN <<CStr(h.strs[h.nodes[n].valuestring].data)>>
        ELSE <<>>

\* the object the configuration holds the settings in: the named server when
\* --server is given, else the root (0: none)
SettingsObject(h, root, server_name) ==
    LET isObj(n) == n # 0 /\ Kind(h.nodes[n].type) = cJSON_Object
        servers == IF isObj(root) THEN FirstMember(h, root, KeyServers, TRUE) ELSE 0
        server == IF isObj(servers)
                  THEN FirstMember(h, servers, server_name[1], TRUE) ELSE 0
    IN  IF root = 0 THEN 0
        ELSE IF server_name = <<>> THEN root
        ELSE IF isObj(server) THEN server
        ELSE 0

\* the first of the values given, in the order of precedence
FirstGiven(cli, env, config, default) ==
    IF cli # <<>> THEN cli[1]
    ELSE IF env # <<>> THEN env[1]
    ELSE IF config # <<>> THEN config[1]
    ELSE default

\* C15: the upload is made, with the URL and the token each taken from the
\* command line if given there, else from the environment if set, else from
\* the configuration file if it has the setting as a string (of the named
\* server with --server, else default_server / default_token), else the
\* built-in default.
C15_SettingsPrecedence ==
    last.op = "main" =>
        LET a == last.args
            obj == SettingsObject(last.before, last.root, a.server_name)
            named == a.server_name # <<>>
        IN  /\ pc # "crashed"
            /\ last.cfg.url =
                   FirstGiven(a.cli_url, a.env_url,
                              SettingOf(last.before, obj,
                                        IF named THEN KeyUrl ELSE KeyDefaultServer),
                              DefaultUrl)
            /\ last.cfg.token =
                   FirstGiven(a.cli_token, a.env_token,
                              SettingOf(last.before, obj,
                                        IF named THEN KeyToken ELSE KeyDefaultToken),
                              <<>>)

\* the value under the node n: its kind, its number (valueint, valuedouble),
\* its string payload, its key and its children in order, each absent as <<>>
RECURSIVE ValueOf(_, _)
ValueOf(h, n) ==
    LET nd == h.nodes[n]
        kids == Children(h, n)
    IN  [kind |-> Kind(nd.type),
         num |-> IF Kind(nd.type) = cJSON_Number
                 THEN <<nd.valueint, nd.valuedouble>> ELSE <<>>,
         str |-> IF Kind(nd.type) = cJSON_String /\ nd.valuestring # 0
                 THEN <<CStr(h.strs[nd.valuestring].data)>> ELSE <<>>,
         key |-> IF nd.string # 0 THEN <<CStr(h.strs[nd.string].data)>> ELSE <<>>,
         kids |-> [i \in 1..Len(kids) |-> ValueOf(h, kids[i])]]

\* JSON read by its grammar.  A value read is [ok, end, val]: whether a
\* complete value begins at the index, the index just past it, and the value
\* in the form of ValueOf.  Numbers with a fraction or an exponent are left
\* out (ok is FALSE for them).
RefNone == [ok |-> FALSE, end |-> 0, val |-> <<>>]

RefLeaf(kind, end, num, str) ==
    [ok |-> TRUE, end |-> end,
     val |-> [kind |-> kind, num |-> num, str |-> str, key |-> <<>>, kids |-> <<>>]]

\* the index of the first character at or after i that is no white space
RECURSIVE RefSpace(_, _)
RefSpace(m, i) ==
    IF At(m, i) \in {9, 10, 13, 32} THEN RefSpace(m, i + 1) ELSE i

\* the index of the first character at or after i that is no digit
RECURSIVE RefDigitsEnd(_, _)
RefDigitsEnd(m, i) == IF IsDigit(At(m, i)) THEN RefDigitsEnd(m, i + 1) ELSE i

\* the number the digits from i up to j (not included) write
RECURSIVE RefDigitsValue(_, _, _)
RefDigitsValue(m, i, j) ==
    IF j <= i THEN 0
    ELSE 10 * RefDigitsValue(m, i, j - 1) + (At(m, j - 1) - Ch_0)

\* an integer at i
RefInteger(m, i) ==
    LET first == IF At(m, i) = Ch_Minus THEN i + 1 ELSE i
        end == RefDigitsEnd(m, first)
        v == RefDigitsValue(m, first, end)
        n == IF At(m, i) = Ch_Minus THEN -v ELSE v
    IN  IF end = first \/ At(m, end) \in {Ch_Point, Ch_e, Ch_E} THEN RefNone
        ELSE RefLeaf(cJSON_Number, end, <<n, Norm(n, 0)>>, <<>>)

\* a string literal at i
RefString(m, i) ==
    LET q == ClosingQuote(m, i + 1)
    IN  IF At(m, i) # Ch_Quote \/ At(m, q) # Ch_Quote \/ SurrogateFault(m, i + 1, FALSE)
        THEN RefNone
        ELSE RefLeaf(cJSON_String, q + 1, <<>>, <<RefDecode(m, i + 1)>>)

RECURSIVE RefValue(_, _)

\* the items of an array (keyed: the members of an object) from the one at
\* i on, after the items acc, up to the closing bracket (brace)
RECURSIVE RefItems(_, _, _, _)
RefItems(m, i, acc, keyed) ==
    LET key == RefString(m, i)
        colon == RefSpace(m, key.end)
        at == IF keyed THEN RefSpace(m, colon + 1) ELSE i
        it == RefValue(m, at)
        item == IF keyed THEN [it.val EXCEPT !.key = key.val.str] ELSE it.val
        next == RefSpace(m, it.end)
        close == IF keyed THEN Ch_RBrace ELSE Ch_RBracket
    IN  IF keyed /\ (~key.ok \/ At(m, colon) # Ch_Colon) THEN RefNone
        ELSE IF ~it.ok THEN RefNone
        ELSE IF At(m, next) = Ch_Comma
        THEN RefItems(m, RefSpace(m, next + 1), Append(acc, item), keyed)
        ELSE IF At(m, next) = close
        THEN [ok |-> TRUE, end |-> next + 1, val |-> Append(acc, item)]
        ELSE RefNone

\* an array or an object at i
RefContainer(m, i, keyed) ==
    LET first == RefSpace(m, i + 1)
        close == IF keyed THEN Ch_RBrace ELSE Ch_RBracket
        kind == IF keyed THEN cJSON_Object ELSE cJSON_Array
        items == IF At(m, first) = close
                 THEN [ok |-> TRUE, end |-> first + 1, val |-> <<>>]
                 ELSE RefItems(m, first, <<>>, keyed)
    IN  IF ~items.ok THEN RefNone
        ELSE [ok |-> TRUE, end |-> items.end,
              val |-> [kind |-> kind, num |-> <<>>, str |-> <<>>, key |-> <<>>,
                       kids |-> items.val]]

RefValue(m, i) ==
    IF IsLit(m, i, LitNull) THEN RefLeaf(cJSON_NULL, i + 4, <<>>, <<>>)
    ELSE IF IsLit(m, i, LitFalse) THEN RefLeaf(cJSON_False, i + 5, <<>>, <<>>)
    ELSE IF IsLit(m, i, LitTrue) THEN RefLeaf(cJSON_True, i + 4, <<>>, <<>>)
    ELSE IF At(m, i) = Ch_Quote THEN RefString(m, i)
    ELSE IF At(m, i) = Ch_Minus \/ IsDigit(At(m, i)) THEN RefInteger(m, i)
    ELSE IF At(m, i) = Ch_LBracket THEN RefContainer(m, i, FALSE)
    ELSE IF At(m, i) = Ch_LBrace THEN RefContainer(m, i, TRUE)
    ELSE RefNone

\* the value the text begins with after its leading white space
RefLeading(m) == RefValue(m, RefSpace(m, 1))

\* C16: when the input given whole begins, after leading white space, with a
\* complete value, cJSON_ParseWithLength (no allocation failing) returns the
\* tree of that value, whatever bytes follow it.
C16_TrailingInputIgnored ==
    (/\ Parsed
     /\ buffer_length > 0
     /\ buffer_length = Len(mem) - 1
     /\ P.h.failAt = 0
     /\ RefLeading(mem).ok) =>
        /\ tree # 0
        /\ ValueOf(P.h, tree) = RefLeading(mem).val

\* no node occurs twice in the list kids
NoRepeat(kids) == \A i, j \in 1..Len(kids) : kids[i] = kids[j] => i = j

\* the abstract list after the last call: an add appends the item, a detach or
\* a delete at an index of the list removes the element there, and any other
\* call leaves the list as it was
AbstractList ==
    LET kids == Children(last.before, tree)
    IN  IF last.op = "add" THEN Append(kids, last.item)
        ELSE IF /\ last.array = tree
                /\ last.which >= 0
                /\ last.which < Len(kids)
             THEN Without(kids, last.which + 1)
             ELSE kids

\* C17: after every cJSON_AddItemToArray, cJSON_AddItemToObject,
\* cJSON_DetachItemFromArray and cJSON_DeleteItemFromArray on a container
\* that started empty, the children of the container are linked by next and
\* prev without a cycle, and their forward order is that of the abstract
\* list to which the same calls were applied, an add being an append.
C17_ChildListIsAbstractList ==
    /\ last.op = "create" => Children(P.h, tree) = <<>>
    /\ last.op \in {"add", "detach", "delete_item"} =>
           LET kids == Children(P.h, tree)
           IN  /\ NoRepeat(kids)
               /\ Linked(P.h, kids)
               /\ P.h.nodes[tree].child = (IF kids = <<>> THEN 0 ELSE kids[1])
               /\ kids = AbstractList

\* the bytes print_string_ptr writes for the buffer s, terminator included,
\* fit in the len + 3 bytes it allocated
StringFits(h, s) ==
    s # 0 => Len(print_string_ptr(h, s).text) + 1
                 <= MeasureAll(CStr(h.strs[s].data), 1) + 3

\* C18: a print writes no byte past the end of a buffer it allocated: what
\* print_string_ptr writes for a payload or a key fits in the len + 3 bytes
\* it measured, and the text print_value formats for a Number fits in its
\* 32 bytes.
C18_PrintWritesInBounds ==
    (pc = "printed" /\ last.op = "print") =>
        \A n \in Subtree(P.h, orig) :
            LET nd == P.h.nodes[n]
            IN  /\ Kind(nd.type) = cJSON_String => StringFits(P.h, nd.valuestring)
                /\ StringFits(P.h, nd.string)
                /\ Kind(nd.type) = cJSON_Number => Len(PrintNumber(nd).text) + 1 <= 32

====
